---------------------------- MODULE Spec2Model ----------------------------
(***************************************************************************)
(* Model of the quality-gated refinement loop of the detection agent:      *)
(* detection_agent/quality_retry.py (run_with_quality_retry and its        *)
(* helpers), the outcome of detection_agent/agent.py (run_detection_agent) *)
(* as the loop sees it, and the metrics of                                 *)
(* scripts/execute_detection_tests.py (calculate_metrics).                 *)
(*                                                                         *)
(* Ratios (precision, recall, f1, thresholds) are integers in thousandths: *)
(* calculate_metrics rounds every ratio to 3 decimals before it is         *)
(* persisted, and the loop only compares and adds the rounded values.      *)
(***************************************************************************)
EXTENDS Integers, Sequences, FiniteSets, TLC

(***************************************************************************)
(* Bounds of the model.                                                    *)
(***************************************************************************)
MaxIterations == 3      \* max_iterations is drawn from 0..MaxIterations
MaxRules == 1           \* the agent validates 0..MaxRules rules per run

(***************************************************************************)
(* Inputs.                                                                 *)
(***************************************************************************)
\* (precision_threshold, recall_threshold) pairs: the defaults of
\* run_with_quality_retry (0.60, 0.70) and the pair 0.80 / 0.70.
ThresholdPairs == { <<600, 700>>, <<800, 700>> }

\* Summed TP/FP/FN/TN counts a test run can persist as overall_metrics.
Counts(tp, fp, fn, tn) == [TP |-> tp, FP |-> fp, FN |-> fn, TN |-> tn]

CountProfiles ==
    { Counts(0, 0, 5, 5),     \* nothing matched: precision 0, recall 0
      Counts(1, 4, 3, 2),     \* precision 0.200, recall 0.250
      Counts(4, 1, 1, 4),     \* precision 0.800, recall 0.800
      Counts(7, 0, 3, 0),     \* precision 1.000, recall 0.700
      Counts(3, 2, 1, 4) }    \* precision 0.600, recall 0.750

(***************************************************************************)
(* scripts/execute_detection_tests.py: calculate_metrics                   *)
(***************************************************************************)
\* variant of Round3: the ratio is cut after three decimals
Trunc3(num, den) == (1000 * num) \div den

\* round(num / den, 3) in thousandths, ties to even (Python's round)
Round3(num, den) ==
    LET q == (1000 * num) \div den
        r == (1000 * num) % den
    IN  IF 2 * r > den THEN q + 1
        ELSE IF 2 * r < den THEN q
        ELSE IF q % 2 = 0 THEN q ELSE q + 1

calculate_metrics(c) ==
    LET tp == c.TP
        fn == c.FN
        fp == c.FP
        tn == c.TN
        total == tp + fn + fp + tn
    IN  [ TP |-> tp, FN |-> fn, FP |-> fp, TN |-> tn, total |-> total,
          precision |-> IF tp + fp > 0 THEN Round3(tp, tp + fp) ELSE 0,
          recall    |-> IF tp + fn > 0 THEN Round3(tp, tp + fn) ELSE 0,
          \* 2pr/(p+r) with p = tp/(tp+fp), r = tp/(tp+fn) is 2tp/(2tp+fp+fn);
          \* p + r > 0 exactly when tp > 0
          f1_score  |-> IF tp > 0 THEN Round3(2 * tp, 2 * tp + fp + fn) ELSE 0,
          accuracy  |-> IF total > 0 THEN Round3(tp + tn, total) ELSE 0 ]


(***************************************************************************)
(* State of run_with_quality_retry.                                        *)
(***************************************************************************)
VARIABLES
    max_iterations,       \* argument max_iterations
    precision_threshold,  \* argument precision_threshold, in thousandths
    recall_threshold,     \* argument recall_threshold, in thousandths
    pc,                   \* position of the controller in its loop
    iteration,            \* loop variable: number of the iteration last started
    iteration_history,    \* list of iteration records
    feedback_content,     \* feedback text kept for the next iteration
    result,               \* local: how run_detection_agent ended in this iteration
    test_env,             \* what run_integration_tests found in this iteration
    test_result,          \* local: result of run_integration_tests
    generation_prompt,    \* prompt of this iteration's rule-generation call
    feedback_files,       \* iterations k whose quality_feedback_iter<k>.txt was written
    tests_run,            \* iterations in which run_integration_tests was invoked
    retval,               \* value returned by run_with_quality_retry
    cooldowns             \* seconds of each sleep the loop made between iterations

ctl_vars == << max_iterations, precision_threshold, recall_threshold, pc,
               iteration, iteration_history, feedback_content, result, test_env,
               test_result, generation_prompt, feedback_files, tests_run, retval,
               cooldowns >>

(***************************************************************************)
(* State of run_detection_agent (detection_agent/agent.py), steps 3 to 5.  *)
(***************************************************************************)
VARIABLES
    agent_pc,             \* position of run_detection_agent
    gen_response,         \* rules in the generation response, as parsed JSON
    rule_output,          \* rule_output.rules: the rules DetectionRuleOutput holds
    rule_idx,             \* loop position in "for rule in rule_output.rules"
    validated_rules,      \* list of approved rules
    validator_calls,      \* rules a validator call was made for
    saved_files,          \* rule files written by step 5
    tested_files,         \* rule files the test engine loaded afterwards
    agent_error           \* exception that ended the run, "" when none

agent_vars == << agent_pc, gen_response, rule_output, rule_idx, validated_rules,
                 validator_calls, saved_files, tested_files, agent_error >>

(***************************************************************************)
(* State of test_rule (scripts/execute_detection_tests.py).                *)
(***************************************************************************)
VARIABLES
    engine_pc,            \* position of test_rule
    test_cases,           \* rule['test_cases']
    test_idx,             \* number of test cases the loop has gone through
    es_index,             \* documents in the rule's test index
    index_before,         \* documents in that index when test_rule was called
    es_log,               \* what Elasticsearch answered for each test case so far
    results,              \* the four counters
    details,              \* list of per-test-case records
    rule_metrics          \* metrics of the returned record

engine_vars == << engine_pc, test_cases, test_idx, es_index, index_before,
                  es_log, results, details, rule_metrics >>

(***************************************************************************)
(* State of main (scripts/execute_detection_tests.py).                     *)
(***************************************************************************)
VARIABLES
    main_pc,              \* position of main
    rule_files,           \* number of *.yml files in the rules directory
    files_done,           \* rule files the loop has gone through
    all_results,          \* list of test_rule results
    overall_metrics,      \* metrics written to test_results.json
    exit_code             \* return value of main, -1 while running

main_vars == << main_pc, rule_files, files_done, all_results, overall_metrics,
                exit_code >>

(***************************************************************************)
(* Inputs and outputs of the functions of counts: calculate_metrics        *)
(* (scripts/execute_detection_tests.py) and diagnose_failure               *)
(* (scripts/refine_detections_v2.py).                                      *)
(***************************************************************************)
VARIABLES
    in_counts,            \* the counts passed in
    payload_dir,          \* what tests_dir / rule_id holds
    metrics_out,          \* value returned by calculate_metrics
    diagnosis             \* value returned by diagnose_failure

counts_vars == << in_counts, payload_dir, metrics_out, diagnosis >>

(***************************************************************************)
(* State of generate_with_retry (detection_agent/agent.py).                *)
(***************************************************************************)
VARIABLES
    retry_pc,             \* position of generate_with_retry
    model_config,         \* argument model_config: an entry of MODELS
    max_retries,          \* argument max_retries
    attempt,              \* loop variable
    backend_calls,        \* answers of the generate_content calls made so far
    sleeps,               \* seconds of each asyncio.sleep made so far
    retry_result          \* how generate_with_retry ended

retry_vars == << retry_pc, model_config, max_retries, attempt, backend_calls,
                 sleeps, retry_result >>

(***************************************************************************)
(* The files run_with_quality_retry leaves and finds on disk, iteration by *)
(* iteration (detection_agent/quality_retry.py, detection_agent/agent.py,  *)
(* scripts/execute_detection_tests.py).                                    *)
(***************************************************************************)
VARIABLES
    fs_pc,                \* position of the loop
    fs_iteration,         \* number of the iteration last started
    fs_files,             \* rule files on disk, each with the iteration that wrote it
    fs_tested,            \* rule files the test engine loaded in this iteration
    fs_results_file,      \* iteration that wrote test_results.json, -1 when absent
    fs_metrics            \* iteration whose test run computed this iteration's
                          \* metrics, -1 when run_integration_tests returned None

fs_vars == << fs_pc, fs_iteration, fs_files, fs_tested, fs_results_file,
              fs_metrics >>

(***************************************************************************)
(* Arguments and results of the helper functions, each called on its own:  *)
(* the index name of test_rule and main                                    *)
(* (scripts/execute_detection_tests.py), safe_json_parse                   *)
(* (detection_agent/agent.py), create_refinement_prompt                    *)
(* (scripts/refine_failed_rules.py) and wait_for_elasticsearch             *)
(* (scripts/integration_test_ci.py, scripts/integration_test_elk.py).      *)
(***************************************************************************)
VARIABLES
    helper_call,          \* the function that is called
    rule_names,           \* names of two rule files tested in one run
    index_names,          \* index_name test_rule derives for each of them
    response_text,        \* argument of safe_json_parse
    parsed,               \* how safe_json_parse ended
    failing_rules,        \* argument of create_refinement_prompt
    prompt,               \* failure analysis part of the prompt it returns
    timeout,              \* argument of wait_for_elasticsearch, in seconds
    elapsed,              \* time.time() - start_time, in seconds
    health_checks,        \* what each health check so far answered
    wait_result           \* value returned by wait_for_elasticsearch

helper_vars == << helper_call, rule_names, index_names, response_text,
                  parsed, failing_rules, prompt, timeout, elapsed, health_checks,
                  wait_result >>

(***************************************************************************)
(* Arguments, state and results of further procedures, each run on its own.*)
(***************************************************************************)
VARIABLES
    proc_call,            \* the procedure that is run
    rule_cases,           \* test_cases of a generated rule
    entered_cases,        \* the test cases test_rule runs, in a one-element sequence
    payloads,             \* payloads of one rule in the shared index
    other_matches,        \* other documents of the index that satisfy the query
    detections,           \* ids of the rule's payloads among the hits, in a one-element sequence
    search_error,         \* the search raised an exception
    shared_counts,        \* counts of calculate_metrics
    original_payload,     \* a payload file of the rule before the first run
    payload_file,         \* the payload file as it is on disk
    backup_file,          \* the copy under backup_dir, in a one-element sequence
    mapping_runs,         \* runs of apply_field_mapping so far
    field_names,          \* argument field_names
    max_concurrent,       \* argument max_concurrent
    batch_start,          \* loop variable i
    in_flight,            \* positions of field_names whose research call is running
    batch_results,        \* results of the calls of the batch that have ended
    research_results,     \* the dictionary results, as its items
    research_sleeps,      \* asyncio.sleep(2.0) calls made
    research_return,      \* the returned dictionary, in a one-element sequence
    iterations,           \* argument iterations
    runner_iteration,     \* loop variable iteration
    current_query,        \* current_query
    runner_output,        \* output: << >> is None
    runner_runs,          \* the run_debug calls made: query given, outcome
    runner_result,        \* how run_agent_with_iteration ended
    refine_max_iterations, \* argument max_iterations
    refine_iteration,     \* loop variable iteration
    failure_history,      \* failure_history
    refine_sleeps,        \* asyncio.sleep(5.0) calls made
    refine_result,        \* how run_with_refinement ended
    rule_evaluations,     \* quality_report['rule_evaluations']
    test_results,         \* INTEGRATION_TEST_RESULTS.json
    passing_rules,        \* passing_rules
    staged_batch,         \* the batch metadata file written, in a one-element sequence
    filter_exit           \* the script has ended

proc_vars == << proc_call, rule_cases, entered_cases, payloads,
              other_matches, detections, search_error, shared_counts,
              original_payload, payload_file, backup_file, mapping_runs,
              field_names, max_concurrent, batch_start, in_flight,
              batch_results, research_results, research_sleeps,
              research_return, iterations, runner_iteration, current_query,
              runner_output, runner_runs, runner_result,
              refine_max_iterations, refine_iteration, failure_history,
              refine_sleeps, refine_result, rule_evaluations, test_results,
              passing_rules, staged_batch, filter_exit >>

vars == << ctl_vars, agent_vars, engine_vars, main_vars, counts_vars,
           retry_vars, fs_vars, helper_vars, proc_vars >>

\* Text values: what a prompt is made of, and what feedback_content can hold.
Part(kind, k) == [part |-> kind, of |-> k]
None == Part("none", 0)                 \* Python None
EmptyText == Part("empty", 0)          \* the empty string
FeedbackText(k) == Part("feedback", k) \* feedback built from iteration k's results
Truthy(text) == text.part \notin {"none", "empty"}

\* run_detection_agent has not been called
NoAgentResult ==
    [kind |-> "none", step |-> "", error |-> "", rules_generated |-> 0]

\* run_integration_tests returned None
NoTestResult ==
    [present |-> FALSE, precision |-> 0, recall |-> 0, f1_score |-> 0,
     tp |-> 0, fn |-> 0, fp |-> 0, tn |-> 0]

\* run_with_quality_retry has not returned
NoReturn ==
    [returned |-> FALSE, rules_generated |-> 0, precision |-> 0, recall |-> 0,
     f1_score |-> 0, iterations_used |-> 0, quality_passed |-> FALSE,
     iteration_history |-> << >>]

(***************************************************************************)
(* detection_agent/agent.py: run_detection_agent, as its caller sees it.   *)
(* backend describes what the generation service and the validator answer  *)
(* in this run.                                                            *)
(***************************************************************************)
Backends ==
    [ scan : {"ALLOW", "FLAG", "BLOCK", "exhausted", "malformed"},
      gen : {"rules", "exhausted", "malformed"},
      val : {"ok", "exhausted", "malformed"},
      approved : 0..MaxRules ]

\* the exception a failed call raises: generate_with_retry re-raises the
\* rate-limit error of its last attempt, safe_json_parse the decode error
ErrorOf(answer) ==
    IF answer = "exhausted" THEN "ResourceExhausted" ELSE "JSONDecodeError"

\* generation_prompt of step 3: generator prompt and CTI content only
GenerationPrompt == << Part("generator_prompt", 0), Part("cti_content", 0) >>
NoPrompt == << >>

\* variant of ReachesGeneration: a blocking scan does not stop the workflow
ReachesGenerationAfterBlock(backend) ==
    backend.scan \in {"ALLOW", "FLAG", "BLOCK"}

\* the rule-generation call is reached only after a scan that did not block or fail
ReachesGeneration(backend) == backend.scan \in {"ALLOW", "FLAG"}

\* how a run of the agent ends, and in which step of its workflow
Outcome(kind, step, error, n) ==
    [kind |-> kind, step |-> step, error |-> error, rules_generated |-> n]

run_detection_agent(backend) ==
    IF backend.scan \in {"exhausted", "malformed"}
    THEN Outcome("raise", "scan", ErrorOf(backend.scan), 0)
    ELSE IF backend.scan = "BLOCK"
    THEN Outcome("exit", "scan", "SystemExit", 0)      \* sys.exit(1)
    ELSE IF backend.gen # "rules"
    THEN Outcome("raise", "generate", ErrorOf(backend.gen), 0)
    ELSE IF backend.val # "ok"
    THEN Outcome("raise", "validate", ErrorOf(backend.val), 0)
    ELSE Outcome("return", "save", "", backend.approved)

(***************************************************************************)
(* detection_agent/quality_retry.py: helpers                               *)
(***************************************************************************)
TestEnv(dir, es, rc, file, counts) ==
    [ rules_dir_exists |-> dir, es_available |-> es, returncode |-> rc,
      results_file_exists |-> file, counts |-> counts ]

NoCounts == Counts(0, 0, 0, 0)
NoTestEnv == TestEnv(FALSE, FALSE, 1, FALSE, NoCounts)

\* What run_integration_tests can find when it runs; a field behind the first
\* failing check is never read and is left at its default.
TestEnvs ==
    { TestEnv(FALSE, FALSE, 1, FALSE, NoCounts),
      TestEnv(TRUE, FALSE, 1, FALSE, NoCounts),
      TestEnv(TRUE, TRUE, 1, FALSE, NoCounts),
      TestEnv(TRUE, TRUE, 0, FALSE, NoCounts) }
    \cup { TestEnv(TRUE, TRUE, 0, TRUE, c) : c \in CountProfiles }

check_elasticsearch_available(env) == env.es_available

\* variant of run_integration_tests: a missing results file yields default
\* (zero) metrics instead of no result
run_integration_tests_defaults(env) ==
    IF ~env.rules_dir_exists THEN NoTestResult
    ELSE IF ~check_elasticsearch_available(env) THEN NoTestResult
    ELSE IF env.returncode # 0 THEN NoTestResult
    ELSE [NoTestResult EXCEPT
              !.present = TRUE,
              !.precision = calculate_metrics(env.counts).precision,
              !.recall = calculate_metrics(env.counts).recall,
              !.f1_score = calculate_metrics(env.counts).f1_score]

run_integration_tests(env) ==
    IF ~env.rules_dir_exists THEN NoTestResult
    ELSE IF ~check_elasticsearch_available(env) THEN NoTestResult
    ELSE IF env.returncode # 0 THEN NoTestResult
    ELSE IF ~env.results_file_exists THEN NoTestResult
    ELSE LET metrics == calculate_metrics(env.counts)
         IN  [ present |-> TRUE,
               precision |-> metrics.precision,
               recall |-> metrics.recall,
               f1_score |-> metrics.f1_score,
               tp |-> metrics.TP, fn |-> metrics.FN,
               fp |-> metrics.FP, tn |-> metrics.TN ]

\* what analyze_test_failures finds: the results file, and the analysis
\* script's exit status and output
AnalysisEnvs(k) ==
    [ results_exist : BOOLEAN, returncode : {0, 1},
      stdout : {EmptyText, FeedbackText(k)} ]

analyze_test_failures(env) ==
    IF ~env.results_exist THEN None
    ELSE IF env.returncode = 0 THEN env.stdout
    ELSE None

\* an iteration record
Record(k, n, p, r, status) ==
    [iteration |-> k, rules_generated |-> n, precision |-> p, recall |-> r,
     status |-> status]

ErrorStatus(e) == "ERROR: " \o e

\* variant of Appended: an iteration that scored nothing is not recorded
AppendedIfScored(history, record) ==
    IF record.precision + record.recall > 0 THEN Append(history, record)
    ELSE history

\* variant of Appended: the newest record takes the place of the previous one
AppendedOverLast(history, record) ==
    IF history = << >> THEN << record >>
    ELSE [history EXCEPT ![Len(history)] = record]

\* iteration_history.append(record)
Appended(history, record) == Append(history, record)

\* max(iteration_history, key = precision + recall): the first record of maximal sum
Best(history) ==
    LET score(i) == history[i].precision + history[i].recall
        top == CHOOSE i \in 1..Len(history) :
                   /\ \A j \in 1..Len(history) : score(j) <= score(i)
                   /\ \A j \in 1..(i - 1) : score(j) < score(i)
    IN  history[top]

(***************************************************************************)
(* A function that is not running: its variables hold their idle values.   *)
(***************************************************************************)
\* run_with_quality_retry is not called
CtlIdle ==
    /\ max_iterations = 0
    /\ precision_threshold = 600
    /\ recall_threshold = 700
    /\ pc = "idle"
    /\ iteration = 0
    /\ iteration_history = << >>
    /\ feedback_content = None
    /\ result = NoAgentResult
    /\ test_env = NoTestEnv
    /\ test_result = NoTestResult
    /\ generation_prompt = NoPrompt
    /\ feedback_files = {}
    /\ tests_run = {}
    /\ retval = NoReturn
    /\ cooldowns = << >>

\* the steps of run_detection_agent are not followed
AgentIdle ==
    /\ agent_pc = "idle"
    /\ gen_response = << >>
    /\ rule_output = << >>
    /\ rule_idx = 0
    /\ validated_rules = << >>
    /\ validator_calls = {}
    /\ saved_files = {}
    /\ tested_files = {}
    /\ agent_error = ""

\* test_rule is not called
EngineIdle ==
    /\ engine_pc = "idle"
    /\ test_cases = << >>
    /\ test_idx = 0
    /\ es_index = << >>
    /\ index_before = << >>
    /\ es_log = << >>
    /\ results = NoCounts
    /\ details = << >>
    /\ rule_metrics = << >>

\* main of the test engine is not called
MainIdle ==
    /\ main_pc = "idle"
    /\ rule_files = 0
    /\ files_done = 0
    /\ all_results = << >>
    /\ overall_metrics = << >>
    /\ exit_code = -1

\* no function of counts is called
CountsIdle ==
    /\ in_counts = NoCounts
    /\ payload_dir = ""
    /\ metrics_out = << >>
    /\ diagnosis = [issue |-> "", action |-> ""]

\* generate_with_retry is not called
RetryIdle ==
    /\ retry_pc = "idle"
    /\ model_config = [name |-> "", retry_config |-> << >>]
    /\ max_retries = 0
    /\ attempt = 0
    /\ backend_calls = << >>
    /\ sleeps = << >>
    /\ retry_result = [kind |-> "none", call |-> 0, error |-> ""]

\* the disk is not looked at
FsIdle ==
    /\ fs_pc = "idle"
    /\ fs_iteration = 0
    /\ fs_files = {}
    /\ fs_tested = {}
    /\ fs_results_file = -1
    /\ fs_metrics = -1

\* no helper function is called
HelperIdle ==
    /\ helper_call = "none"
    /\ rule_names = << >>
    /\ index_names = << >>
    /\ response_text = << >>
    /\ parsed = [kind |-> "none", value |-> << >>]
    /\ failing_rules = << >>
    /\ prompt = << >>
    /\ timeout = 0
    /\ elapsed = 0
    /\ health_checks = << >>
    /\ wait_result = "none"

\* no further procedure is run
ProcIdle ==
    /\ proc_call = "none"
    /\ rule_cases = << >>
    /\ entered_cases = << >>
    /\ payloads = << >>
    /\ other_matches = 0
    /\ detections = << >>
    /\ search_error = FALSE
    /\ shared_counts = [tp |-> 0, fp |-> 0, tn |-> 0, fn |-> 0]
    /\ original_payload = [has_log_entry |-> FALSE, fields |-> {}]
    /\ payload_file = [has_log_entry |-> FALSE, fields |-> {}]
    /\ backup_file = << >>
    /\ mapping_runs = 0
    /\ field_names = << >>
    /\ max_concurrent = 0
    /\ batch_start = 0
    /\ in_flight = {}
    /\ batch_results = {}
    /\ research_results = {}
    /\ research_sleeps = 0
    /\ research_return = << >>
    /\ iterations = 0
    /\ runner_iteration = 0
    /\ current_query = [refines |-> 0, chars |-> 0, note |-> FALSE]
    /\ runner_output = << >>
    /\ runner_runs = << >>
    /\ runner_result = << >>
    /\ refine_max_iterations = 0
    /\ refine_iteration = 0
    /\ failure_history = << >>
    /\ refine_sleeps = 0
    /\ refine_result = NoAgentResult
    /\ rule_evaluations = << >>
    /\ test_results = << >>
    /\ passing_rules = << >>
    /\ staged_batch = << >>
    /\ filter_exit = << >>

(***************************************************************************)
(* detection_agent/quality_retry.py: run_with_quality_retry                *)
(***************************************************************************)
Init ==
    /\ AgentIdle /\ EngineIdle /\ MainIdle /\ CountsIdle /\ RetryIdle /\ FsIdle /\ HelperIdle /\ ProcIdle
    /\ max_iterations \in 0..MaxIterations
    /\ \E t \in ThresholdPairs :
           /\ precision_threshold = t[1]
           /\ recall_threshold = t[2]
    /\ pc = "loop"
    /\ iteration = 0
    /\ iteration_history = << >>
    /\ feedback_content = None
    /\ result = NoAgentResult
    /\ test_env = NoTestEnv
    /\ test_result = NoTestResult
    /\ generation_prompt = NoPrompt
    /\ feedback_files = {}
    /\ tests_run = {}
    /\ retval = NoReturn
    /\ cooldowns = << >>

params == << max_iterations, precision_threshold, recall_threshold >>

\* for iteration in range(1, max_iterations + 1): another iteration follows
MoreIterations(done) == done < max_iterations

\* variant of QualityPassed: thresholds exclusive
QualityPassedStrict(precision, recall) ==
    /\ precision > precision_threshold
    /\ recall > recall_threshold

\* the quality check of the evaluation phase
QualityPassed(precision, recall) ==
    /\ precision >= precision_threshold
    /\ recall >= recall_threshold

\* variant of Caught: only the rate-limit error is handled
CaughtRateLimitOnly(outcome) ==
    outcome.kind = "raise" /\ outcome.error = "ResourceExhausted"

\* except Exception: what the handler of the loop body catches
Caught(outcome) == outcome.kind = "raise"

\* variant of NoRules: the empty rule set is not noticed
NoRulesUnnoticed(outcome) == FALSE

\* if rules_generated == 0
NoRules(outcome) == outcome.rules_generated = 0

\* Top of the loop body up to the end of phase 1: the feedback file is written
\* when feedback_content is set, run_detection_agent is awaited, and the
\* iteration ends here when the agent exits, raises or validates no rule.
Generate ==
    /\ pc = "loop"
    /\ MoreIterations(iteration)
    /\ iteration' = iteration + 1
    /\ feedback_files' = IF Truthy(feedback_content)
                         THEN feedback_files \cup {iteration + 1}
                         ELSE feedback_files
    /\ \E backend \in Backends :
         /\ result' = run_detection_agent(backend)
         /\ generation_prompt' = IF ReachesGeneration(backend)
                                 THEN GenerationPrompt
                                 ELSE NoPrompt
    /\ IF result'.kind = "exit"
       THEN /\ pc' = "exited"
            /\ UNCHANGED iteration_history
       ELSE IF Caught(result')
       THEN /\ iteration_history' = Appended(iteration_history,
                   Record(iteration', 0, 0, 0, ErrorStatus(result'.error)))
            /\ pc' = "loop"
       ELSE IF NoRules(result')
       THEN /\ iteration_history' = Appended(iteration_history,
                   Record(iteration', 0, 0, 0, "FAILED - No rules"))
            /\ pc' = "loop"
       ELSE /\ pc' = "tests"
            /\ UNCHANGED iteration_history
    /\ UNCHANGED << params, feedback_content, test_env, test_result, tests_run,
                    retval >>
    /\ UNCHANGED cooldowns       \* the loop body holds no sleep call
    /\ UNCHANGED << agent_vars, engine_vars, main_vars, counts_vars, retry_vars, fs_vars, helper_vars, proc_vars >>

\* Phase 2: run_integration_tests; no result ends the iteration.
IntegrationTesting ==
    /\ pc = "tests"
    /\ tests_run' = tests_run \cup {iteration}
    /\ test_env' \in TestEnvs
    /\ test_result' = run_integration_tests(test_env')
    /\ IF ~test_result'.present
       THEN /\ iteration_history' = Appended(iteration_history,
                   Record(iteration, result.rules_generated, 0, 0,
                          "FAILED - Test execution error"))
            /\ pc' = "loop"
       ELSE /\ pc' = "evaluate"
            /\ UNCHANGED iteration_history
    /\ UNCHANGED << params, iteration, feedback_content, result,
                    generation_prompt, feedback_files, retval >>
    /\ UNCHANGED cooldowns       \* the loop body holds no sleep call
    /\ UNCHANGED << agent_vars, engine_vars, main_vars, counts_vars, retry_vars, fs_vars, helper_vars, proc_vars >>

\* Phase 3, thresholds met: return at once with the PASSED record added.
Accept ==
    /\ pc = "evaluate"
    /\ QualityPassed(test_result.precision, test_result.recall)
    /\ retval' = [ returned |-> TRUE,
                   rules_generated |-> result.rules_generated,
                   precision |-> test_result.precision,
                   recall |-> test_result.recall,
                   f1_score |-> test_result.f1_score,
                   iterations_used |-> iteration,
                   quality_passed |-> TRUE,
                   iteration_history |-> iteration_history \o
                       << Record(iteration, result.rules_generated,
                                 test_result.precision, test_result.recall,
                                 "PASSED") >> ]
    /\ pc' = "returned"
    /\ UNCHANGED << params, iteration, iteration_history, feedback_content,
                    result, test_env, test_result, generation_prompt,
                    feedback_files, tests_run >>
    /\ UNCHANGED cooldowns       \* the loop body holds no sleep call
    /\ UNCHANGED << agent_vars, engine_vars, main_vars, counts_vars, retry_vars, fs_vars, helper_vars, proc_vars >>

\* Phase 3, thresholds not met: the record is appended; failures are analyzed
\* when an iteration remains.
BelowThreshold ==
    /\ pc = "evaluate"
    /\ ~QualityPassed(test_result.precision, test_result.recall)
    /\ iteration_history' = Appended(iteration_history,
           Record(iteration, result.rules_generated, test_result.precision,
                  test_result.recall, "FAILED - Below quality threshold"))
    /\ IF iteration < max_iterations
       THEN \E env \in AnalysisEnvs(iteration) :
                feedback_content' = analyze_test_failures(env)
       ELSE UNCHANGED feedback_content
    /\ pc' = "loop"
    /\ UNCHANGED << params, iteration, result, test_env, test_result,
                    generation_prompt, feedback_files, tests_run, retval >>
    /\ UNCHANGED cooldowns       \* the loop body holds no sleep call
    /\ UNCHANGED << agent_vars, engine_vars, main_vars, counts_vars, retry_vars, fs_vars, helper_vars, proc_vars >>

\* After the loop: max iterations reached without passing.
Exhaust ==
    /\ pc = "loop"
    /\ ~MoreIterations(iteration)
    /\ LET last == iteration_history[Len(iteration_history)]
           some == iteration_history # << >>
       IN  retval' = [ returned |-> TRUE,
                       rules_generated |-> IF some THEN last.rules_generated ELSE 0,
                       precision |-> IF some THEN last.precision ELSE 0,
                       recall |-> IF some THEN last.recall ELSE 0,
                       f1_score |-> 0,
                       iterations_used |-> max_iterations,
                       quality_passed |-> FALSE,
                       iteration_history |-> iteration_history ]
    /\ pc' = "returned"
    /\ UNCHANGED << params, iteration, iteration_history, feedback_content,
                    result, test_env, test_result, generation_prompt,
                    feedback_files, tests_run >>
    /\ UNCHANGED cooldowns       \* the loop body holds no sleep call
    /\ UNCHANGED << agent_vars, engine_vars, main_vars, counts_vars, retry_vars, fs_vars, helper_vars, proc_vars >>

Next ==
    \/ Generate
    \/ IntegrationTesting
    \/ Accept
    \/ BelowThreshold
    \/ Exhaust

Spec == Init /\ [][Next]_vars


(***************************************************************************)
(* Properties of run_with_quality_retry.                                   *)
(***************************************************************************)
Accepted == pc = "returned" /\ retval.returned /\ retval.quality_passed
Exhausted == pc = "returned" /\ retval.returned /\ ~retval.quality_passed
Aborted == pc = "exited"

\* both thresholds are met, each inclusive
MeetsThresholds(p, r) == p >= precision_threshold /\ r >= recall_threshold

LastRecord == iteration_history[Len(iteration_history)]

BelowStatus == "FAILED - Below quality threshold"
NoRulesStatus == "FAILED - No rules"
TestErrorStatus == "FAILED - Test execution error"

\* C1: when the run ends EXHAUSTED, the precision, recall and rules_generated
\* it returns are those of the history record with the highest
\* precision + recall, and quality_passed is false.
C1_ExhaustedReturnsBest ==
    (Exhausted /\ retval.iteration_history # << >>) =>
        LET h == retval.iteration_history
            best == Best(h)
        IN  /\ ~retval.quality_passed
            \* a record of maximal precision + recall (any of them, on a tie)
            /\ \E i \in 1..Len(h) :
                 /\ h[i].precision + h[i].recall = best.precision + best.recall
                 /\ retval.precision = h[i].precision
                 /\ retval.recall = h[i].recall
                 /\ retval.rules_generated = h[i].rules_generated

\* C2: the run returns quality_passed = TRUE with iterations_used = k exactly
\* when k is the first iteration that generated rules, got metrics from the
\* tests and met both thresholds (inclusive); it then returns at once, starts
\* no later iteration, and the returned history holds the records of
\* iterations 1..k, the last one PASSED.
C2_AcceptedIffFirstPassing ==
    \* an evaluation that meets both thresholds can only be accepted
    /\ (pc = "evaluate" /\ MeetsThresholds(test_result.precision, test_result.recall))
           => (ENABLED Accept /\ ~ENABLED BelowThreshold)
    \* one that misses a threshold is never accepted
    /\ (pc = "evaluate" /\ ~MeetsThresholds(test_result.precision, test_result.recall))
           => ~ENABLED Accept
    \* no record of an earlier or unaccepted iteration meets both thresholds
    /\ \A i \in 1..Len(iteration_history) :
           /\ iteration_history[i].status # "PASSED"
           /\ iteration_history[i].status = BelowStatus =>
                  ~MeetsThresholds(iteration_history[i].precision,
                                   iteration_history[i].recall)
    /\ Accepted =>
         LET h == retval.iteration_history
             k == retval.iterations_used
         IN  /\ k = iteration
             /\ Len(h) = k
             /\ \A i \in 1..k : h[i].iteration = i
             /\ SubSeq(h, 1, k - 1) = iteration_history
             /\ h[k].status = "PASSED"
             /\ h[k].rules_generated > 0
             /\ k \in tests_run /\ test_result.present
             /\ h[k].precision = test_result.precision
             /\ h[k].recall = test_result.recall
             /\ MeetsThresholds(h[k].precision, h[k].recall)
             /\ retval.precision = h[k].precision
             /\ retval.recall = h[k].recall
             /\ ~ENABLED Next

\* C2 witness: accepted in a second or later iteration, with precision exactly
\* at its threshold
C2_Witness ==
    /\ Accepted
    /\ retval.iterations_used >= 2
    /\ retval.precision = precision_threshold


\* C3: for every max_iterations >= 0 and every behaviour of generation,
\* validation and testing, the run ends after starting at most max_iterations
\* iterations in exactly one of the two outcomes ACCEPTED or EXHAUSTED, and no
\* iteration is started after either: whenever no further step is possible,
\* the function has returned one of the two.
C3_TwoTerminalOutcomes ==
    /\ iteration <= max_iterations
    /\ (Accepted \/ Exhausted) => ~ENABLED Next
    /\ (~ENABLED Next) => (Accepted \/ Exhausted)

\* C4: every started iteration has its record in the history before the next
\* iteration starts or the run ends, whatever its outcome, and the history
\* handed back holds the record of every started iteration.
C4_EveryStartedIterationRecorded ==
    /\ (pc \in {"loop", "exited"}) =>
           /\ Len(iteration_history) = iteration
           /\ \A i \in 1..iteration : iteration_history[i].iteration = i
    /\ (pc = "returned") =>
           /\ Len(retval.iteration_history) = iteration
           /\ \A i \in 1..iteration : retval.iteration_history[i].iteration = i
    /\ (pc = "loop" /\ iteration > 0 /\ result.kind = "raise") =>
           LastRecord.status = ErrorStatus(result.error)

\* C5: with max_iterations = N >= 1 and no iteration meeting both thresholds,
\* the returned history has exactly N records, one per iteration, and
\* iterations_used = N.
C5_ExhaustedHistoryHasNRecords ==
    (Exhausted /\ max_iterations >= 1) =>
        /\ Len(retval.iteration_history) = max_iterations
        /\ \A i \in 1..max_iterations : retval.iteration_history[i].iteration = i
        /\ retval.iterations_used = max_iterations

\* C5 witness: three iterations that ended in three different ways
C5_Witness ==
    /\ Exhausted
    /\ max_iterations = 3
    /\ retval.iteration_history[1].status = NoRulesStatus
    /\ retval.iteration_history[2].status = BelowStatus
    /\ retval.iteration_history[3].status = ErrorStatus("JSONDecodeError")

\* C6: the history is append-only and ordered: iteration numbers strictly
\* increase, and no step changes or removes a record appended earlier.
C6_HistoryAppendOnly ==
    [][ /\ \/ iteration_history' = iteration_history
           \/ /\ Len(iteration_history') = Len(iteration_history) + 1
              /\ SubSeq(iteration_history', 1, Len(iteration_history))
                     = iteration_history
        /\ \A i, j \in 1..Len(iteration_history') :
               i < j => iteration_history'[i].iteration
                            < iteration_history'[j].iteration
        /\ retval'.returned =>
               /\ Len(retval'.iteration_history) >= Len(iteration_history)
               /\ SubSeq(retval'.iteration_history, 1, Len(iteration_history))
                      = iteration_history
               /\ \A i, j \in 1..Len(retval'.iteration_history) :
                      i < j => retval'.iteration_history[i].iteration
                                   < retval'.iteration_history[j].iteration
      ]_vars

\* C6 witness: a third record has been appended behind two earlier ones
C6_Witness ==
    /\ Len(iteration_history) = 3
    /\ iteration_history[3].status = BelowStatus

\* C7: when iteration k ended below threshold with k < max_iterations and
\* feedback was built from its results, the rule-generation call of iteration
\* k + 1 receives that feedback in its input.
C7_FeedbackReachesGenerator ==
    ( /\ iteration >= 2
      /\ pc \in {"tests", "exited", "loop"}
      /\ generation_prompt # NoPrompt
      /\ feedback_content = FeedbackText(iteration - 1)
      /\ iteration_history[iteration - 1].status = BelowStatus )
        => \E i \in 1..Len(generation_prompt) :
               generation_prompt[i] = feedback_content

\* this iteration ended after the agent returned with no validated rule
EndedWithNoRules ==
    /\ pc = "loop" /\ iteration >= 1
    /\ result.kind = "return" /\ result.rules_generated = 0

\* C8: when generation plus validation yields zero rules in iteration k, a
\* record with status 'FAILED - No rules' and zero precision and recall is
\* appended, the integration tests are not invoked in that iteration, and the
\* run is not ended: iteration k + 1 follows when k < max_iterations.
C8_NoRulesIteration ==
    /\ EndedWithNoRules =>
         /\ iteration_history # << >>
         /\ LastRecord = Record(iteration, 0, 0, 0, NoRulesStatus)
         /\ ~retval.returned
         /\ iteration < max_iterations => ENABLED Generate
    /\ \A i \in 1..Len(iteration_history) :
         iteration_history[i].status = NoRulesStatus =>
             iteration_history[i].iteration \notin tests_run

\* C8 witness: a no-rules iteration behind one that was tested, another to follow
C8_Witness ==
    /\ EndedWithNoRules
    /\ iteration = 2 /\ max_iterations = 3
    /\ tests_run = {1}

\* this iteration ended with an error raised by the rule-generation step
EndedWithGenerationError ==
    /\ pc = "loop" /\ iteration >= 1
    /\ result.kind = "raise" /\ result.step = "generate"

\* C9: when the generation step of iteration k fails (retry budget exhausted,
\* or output not parseable), iteration k is recorded with zero rules and an
\* error status, the run is not ended, and iteration k + 1 starts when
\* k < max_iterations.
C9_GenerationFailureRecorded ==
    EndedWithGenerationError =>
        /\ result.error \in {"ResourceExhausted", "JSONDecodeError"}
        /\ iteration_history # << >>
        /\ LastRecord = Record(iteration, 0, 0, 0, ErrorStatus(result.error))
        /\ LastRecord.status \notin {NoRulesStatus, TestErrorStatus, BelowStatus,
                                      "PASSED"}
        /\ ~retval.returned
        /\ iteration \notin tests_run
        /\ iteration < max_iterations => ENABLED Generate

\* C9 witness: unparseable output in iteration 1, iteration 2 still to come
C9_Witness ==
    /\ EndedWithGenerationError
    /\ result.error = "JSONDecodeError"
    /\ iteration = 1 /\ max_iterations >= 2

\* this iteration ended because run_integration_tests gave no result
EndedWithTestFailure ==
    /\ pc = "loop" /\ iteration \in tests_run
    /\ ( \/ ~test_env.rules_dir_exists \/ ~test_env.es_available
         \/ test_env.returncode # 0 \/ ~test_env.results_file_exists )

\* C10: when the log store is unreachable or the test run fails in iteration
\* k, the iteration is recorded as failed with zero precision and recall and
\* the run goes on to iteration k + 1; when this happens in every iteration
\* the run ends EXHAUSTED with quality_passed false and precision, recall and
\* F1 all zero.
C10_TestFailureRecorded ==
    /\ EndedWithTestFailure =>
         /\ iteration_history # << >>
         /\ LastRecord = Record(iteration, result.rules_generated, 0, 0,
                                TestErrorStatus)
         /\ ~retval.returned
         /\ iteration < max_iterations => ENABLED Generate
    /\ ( /\ pc = "returned" /\ max_iterations >= 1
         /\ \A i \in 1..Len(retval.iteration_history) :
                retval.iteration_history[i].status = TestErrorStatus )
         => /\ Exhausted
            /\ retval.precision = 0 /\ retval.recall = 0 /\ retval.f1_score = 0

\* C10 witness: the log store was unreachable in each of three iterations
C10_Witness ==
    /\ Exhausted /\ max_iterations = 3
    /\ ~test_env.es_available /\ test_env.rules_dir_exists
    /\ \A i \in 1..3 : retval.iteration_history[i].status = TestErrorStatus

(***************************************************************************)
(* detection_agent/agent.py: run_detection_agent, steps 3 to 5, rule by    *)
(* rule, with the schemas of detection_agent/schemas/detection_rule.py.    *)
(* A rule is identified by its position in the generation response.        *)
(***************************************************************************)
MaxBatch == 2           \* the generation response holds 0..MaxBatch rules

\* the types of a rule's test cases
TypeSets ==
    { {"TP", "FN", "FP", "TN"}, {"TP", "FN"}, {"TP", "FP", "TN"},
      {"FN", "FP", "TN"} }

\* risk_score values on both sides of each end of the allowed range
RiskScores == { -1, 0, 100, 101 }

Rules == [types : TypeSets, risk_score : RiskScores]

Batches == UNION { [1..n -> Rules] : n \in 0..MaxBatch }

\* risk_score: int = Field(ge=0, le=100)
FieldsValid(rule) == rule.risk_score >= 0 /\ rule.risk_score <= 100

\* DetectionRuleOutput(**...): pydantic validates every rule of the list and
\* raises ValidationError when one of them breaks a field constraint
DetectionRuleOutput(batch) ==
    IF \A i \in DOMAIN batch : FieldsValid(batch[i])
    THEN [error |-> "", rules |-> batch]
    ELSE [error |-> "ValidationError", rules |-> << >>]

\* variant of validate_test_cases: only the TP case is required
validate_test_cases_tp_only(rule) ==
    [valid |-> "TP" \in rule.types]

\* DetectionRule.validate_test_cases
validate_test_cases(rule) ==
    [valid |-> "TP" \in rule.types /\ "FN" \in rule.types]

\* what a validator call ends in: overall_score in thousandths, or the error
\* generate_with_retry / ValidationResult raises
ValidatorAnswers ==
    { [error |-> "", overall_score |-> 749],
      [error |-> "", overall_score |-> 750],
      [error |-> "ResourceExhausted", overall_score |-> 0],
      [error |-> "JSONDecodeError", overall_score |-> 0] }

\* output_dir / "<name>.json"
RuleFile(i) == [dir |-> "output_dir", ext |-> "json", rule |-> i]

\* rules_dir.glob('*.yml') with rules_dir = output_dir / 'detection_rules'
LoadedRuleFiles(files) ==
    { f \in files : f.dir = "output_dir/detection_rules" /\ f.ext = "yml" }

InitAgent ==
    /\ CtlIdle /\ EngineIdle /\ MainIdle /\ CountsIdle /\ RetryIdle /\ FsIdle /\ HelperIdle /\ ProcIdle
    /\ agent_pc = "generate"
    /\ gen_response = << >>
    /\ rule_output = << >>
    /\ rule_idx = 0
    /\ validated_rules = << >>
    /\ validator_calls = {}
    /\ saved_files = {}
    /\ tested_files = {}
    /\ agent_error = ""

\* Step 3: the generation response is parsed into DetectionRuleOutput.
AgentGenerate ==
    /\ agent_pc = "generate"
    /\ \E batch \in Batches :
         /\ gen_response' = batch
         /\ rule_output' = DetectionRuleOutput(batch).rules
         /\ agent_error' = DetectionRuleOutput(batch).error
    /\ agent_pc' = IF agent_error' = "" THEN "validate" ELSE "raised"
    /\ UNCHANGED << rule_idx, validated_rules, validator_calls, saved_files,
                    tested_files >>
    /\ UNCHANGED << ctl_vars, engine_vars, main_vars, counts_vars, retry_vars, fs_vars, helper_vars, proc_vars >>

\* Step 4, one pass of the loop body: a rule failing validate_test_cases is
\* skipped; otherwise the validator is called and the rule is approved when
\* overall_score >= 0.75.
AgentValidateRule ==
    /\ agent_pc = "validate"
    /\ rule_idx < Len(rule_output)
    /\ rule_idx' = rule_idx + 1
    /\ IF ~validate_test_cases(rule_output[rule_idx']).valid
       THEN UNCHANGED << agent_pc, validated_rules, validator_calls,
                         agent_error >>
       ELSE \E answer \in ValidatorAnswers :
              /\ validator_calls' = validator_calls \cup {rule_idx'}
              /\ agent_error' = answer.error
              /\ agent_pc' = IF answer.error = "" THEN "validate" ELSE "raised"
              /\ validated_rules' =
                     IF answer.error = "" /\ answer.overall_score >= 750
                     THEN Append(validated_rules, rule_idx')
                     ELSE validated_rules
    /\ UNCHANGED << gen_response, rule_output, saved_files, tested_files >>
    /\ UNCHANGED << ctl_vars, engine_vars, main_vars, counts_vars, retry_vars, fs_vars, helper_vars, proc_vars >>

\* Step 5: every validated rule is written to its file and the run returns.
AgentSave ==
    /\ agent_pc = "validate"
    /\ rule_idx = Len(rule_output)
    /\ saved_files' =
           { RuleFile(validated_rules[k]) : k \in DOMAIN validated_rules }
    /\ agent_pc' = "returned"
    /\ UNCHANGED << gen_response, rule_output, rule_idx, validated_rules,
                    validator_calls, tested_files, agent_error >>
    /\ UNCHANGED << ctl_vars, engine_vars, main_vars, counts_vars, retry_vars, fs_vars, helper_vars, proc_vars >>

\* After a run that validated a rule, the caller starts the test engine, which
\* loads the rule files of its rules directory.
AgentTested ==
    /\ agent_pc = "returned"
    /\ validated_rules # << >>
    /\ tested_files' = LoadedRuleFiles(saved_files)
    /\ agent_pc' = "tested"
    /\ UNCHANGED << gen_response, rule_output, rule_idx, validated_rules,
                    validator_calls, saved_files, agent_error >>
    /\ UNCHANGED << ctl_vars, engine_vars, main_vars, counts_vars, retry_vars, fs_vars, helper_vars, proc_vars >>

NextAgent ==
    \/ AgentGenerate
    \/ AgentValidateRule
    \/ AgentSave
    \/ AgentTested

SpecAgent == InitAgent /\ [][NextAgent]_vars

(***************************************************************************)
(* Claims about run_detection_agent.                                       *)
(***************************************************************************)
LacksTPorFN(rule) == "TP" \notin rule.types \/ "FN" \notin rule.types

InRange(rule) == 0 <= rule.risk_score /\ rule.risk_score <= 100

\* C11: a generated rule that has no TP test case or no FN test case is never
\* put in the validated set, never sent to the validator, never saved, and no
\* file of it is loaded by the test engine in that run.
C11_IncompleteRuleNeverTested ==
    \A i \in DOMAIN gen_response :
        LacksTPorFN(gen_response[i]) =>
            /\ \A k \in DOMAIN validated_rules : validated_rules[k] # i
            /\ i \notin validator_calls
            /\ \A f \in saved_files \cup tested_files : f.rule # i

\* C11 witness: the run returned after skipping a rule without an FN case and
\* saving the other rule of the batch.
C11_Witness ==
    /\ agent_pc = "returned"
    /\ Len(gen_response) = 2
    /\ "FN" \notin gen_response[1].types
    /\ validated_rules = << 2 >>
    /\ saved_files = { RuleFile(2) }

\* C20: when exactly one rule of the generation response has a risk_score
\* outside 0..100 and another rule is in range, the run is not ended by a
\* validation error and the rules it goes on with are the in-range rules of
\* the response.
C20_OnlyOffendingRuleExcluded ==
    ( /\ agent_pc # "generate"
      /\ Cardinality({ i \in DOMAIN gen_response : ~InRange(gen_response[i]) }) = 1
      /\ \E i \in DOMAIN gen_response : InRange(gen_response[i]) )
    => /\ agent_error # "ValidationError"
       /\ rule_output = SelectSeq(gen_response, InRange)

(***************************************************************************)
(* scripts/execute_detection_tests.py: test_rule, for a rule with a query. *)
(***************************************************************************)
MaxCases == 3           \* a rule holds 0..MaxCases test cases

\* a test case: its expected_match, and whether the rule's query matches
\* its log_entry
TestCaseKinds == [expected_match : BOOLEAN, hit : BOOLEAN]

TestCaseLists == UNION { [1..n -> TestCaseKinds] : n \in 0..MaxCases }

\* what Elasticsearch does with a test case: both calls succeed, es.index
\* raises, or es.search raises
EsAnswers == { "ok", "ingest_failed", "query_failed" }

\* the document es.index stores for test case i
Document(i, test_case) == [case |-> i, hit |-> test_case.hit]

\* what earlier runs on the rule's index can have left in it: nothing (no
\* index, or an empty one), or a document the query matches or does not match
StaleIndexes ==
    { << >>, << [case |-> 0, hit |-> TRUE] >>, << [case |-> 0, hit |-> FALSE] >> }

\* variant of create_test_index: an existing index is kept as it is
create_test_index_if_missing(index) == index

\* create_test_index: the index is deleted if it exists, then created
create_test_index(index) == << >>

\* execute_query: the hits of the query over the whole index (at most
\* MaxCases documents, below size=100)
execute_query(index) == { d \in DOMAIN index : index[d].hit }

\* variant of Classify: the two mismatch labels exchanged
ClassifySwapped(expected_match, actual_match) ==
    IF expected_match /\ actual_match THEN "TP"
    ELSE IF expected_match /\ ~actual_match THEN "FP"
    ELSE IF ~expected_match /\ actual_match THEN "FN"
    ELSE "TN"

\* compare expected vs actual
Classify(expected_match, actual_match) ==
    IF expected_match /\ actual_match THEN "TP"
    ELSE IF expected_match /\ ~actual_match THEN "FN"
    ELSE IF ~expected_match /\ actual_match THEN "FP"
    ELSE "TN"

\* variant of Evaluated: a failed query is taken as an empty result
EvaluatedUnlessIngestFailed(answer) == answer # "ingest_failed"

\* neither try block of the loop body ended in "continue"
Evaluated(answer) == answer = "ok"

\* es.index succeeded: the document is in the index
Ingested(answer) == answer # "ingest_failed"

InitEngine ==
    /\ CtlIdle /\ AgentIdle /\ MainIdle /\ CountsIdle /\ RetryIdle /\ FsIdle /\ HelperIdle /\ ProcIdle
    /\ engine_pc = "start"
    /\ test_cases \in TestCaseLists
    /\ test_idx = 0
    /\ es_index \in StaleIndexes
    /\ index_before = es_index
    /\ es_log = << >>
    /\ results = NoCounts
    /\ details = << >>
    /\ rule_metrics = << >>

\* Up to the loop: no test cases returns None; otherwise the rule's index is
\* created anew and the counters start at zero.
TestRuleStart ==
    /\ engine_pc = "start"
    /\ engine_pc' = IF test_cases = << >> THEN "returned_none" ELSE "loop"
    /\ es_index' = IF test_cases = << >> THEN es_index
                   ELSE create_test_index(es_index)
    /\ results' = NoCounts
    /\ details' = << >>
    /\ UNCHANGED << test_cases, test_idx, index_before, es_log, rule_metrics >>
    /\ UNCHANGED << ctl_vars, agent_vars, main_vars, counts_vars, retry_vars, fs_vars, helper_vars, proc_vars >>

\* One pass of the loop body: ingest, query, classify, record.
TestCase ==
    /\ engine_pc = "loop"
    /\ test_idx < Len(test_cases)
    /\ test_idx' = test_idx + 1
    /\ \E answer \in EsAnswers :
         LET test_case == test_cases[test_idx']
             expected_match == test_case.expected_match
             matches == execute_query(es_index')
             actual_match == Cardinality(matches) > 0
             outcome == Classify(expected_match, actual_match)
         IN  /\ es_log' = Append(es_log, answer)
             /\ es_index' = IF Ingested(answer)
                            THEN Append(es_index, Document(test_idx', test_case))
                            ELSE es_index
             /\ IF Evaluated(answer)
                THEN /\ results' = [results EXCEPT ![outcome] = @ + 1]
                     /\ details' = Append(details,
                            [ test_num |-> test_idx',
                              expected_match |-> expected_match,
                              actual_match |-> actual_match,
                              outcome |-> outcome ])
                ELSE UNCHANGED << results, details >>
    /\ UNCHANGED << engine_pc, test_cases, index_before, rule_metrics >>
    /\ UNCHANGED << ctl_vars, agent_vars, main_vars, counts_vars, retry_vars, fs_vars, helper_vars, proc_vars >>

\* After the loop: the metrics of the counters are returned.
TestRuleReturn ==
    /\ engine_pc = "loop"
    /\ test_idx = Len(test_cases)
    /\ rule_metrics' = << calculate_metrics(results) >>
    /\ engine_pc' = "returned"
    /\ UNCHANGED << test_cases, test_idx, es_index, index_before, es_log, results,
                    details >>
    /\ UNCHANGED << ctl_vars, agent_vars, main_vars, counts_vars, retry_vars, fs_vars, helper_vars, proc_vars >>

NextEngine ==
    \/ TestRuleStart
    \/ TestCase
    \/ TestRuleReturn

SpecEngine == InitEngine /\ [][NextEngine]_vars

(***************************************************************************)
(* Claims about test_rule.                                                 *)
(***************************************************************************)
\* the test cases gone through so far for which both calls succeeded
EvaluatedCases == { i \in 1..test_idx : es_log[i] = "ok" }

\* the document of test case i is among the documents the query matches
OwnDocumentMatched(i) ==
    \E d \in DOMAIN es_index : es_index[d].case = i /\ es_index[d].hit

\* number of recorded test cases with the given outcome
Recorded(outcome) ==
    Cardinality({ k \in DOMAIN details : details[k].outcome = outcome })

\* C12: for every recorded test case, in every order of the test cases,
\* actual_match is true exactly when the test case's own ingested document
\* is in the query's result set.
C12_MatchIsOwnDocument ==
    \A k \in DOMAIN details :
        details[k].actual_match <=> OwnDocumentMatched(details[k].test_num)

\* C13: the outcome of every recorded test case is the one the table gives
\* for (expected_match, actual_match), each recorded case counts in exactly
\* the counter of its outcome, and TP + FN + FP + TN is the number of
\* evaluated test cases.
C13_OutcomeTable ==
    /\ \A k \in DOMAIN details :
         LET d == details[k]
         IN  /\ d.expected_match = test_cases[d.test_num].expected_match
             /\ (d.expected_match /\ d.actual_match) => d.outcome = "TP"
             /\ (d.expected_match /\ ~d.actual_match) => d.outcome = "FN"
             /\ (~d.expected_match /\ d.actual_match) => d.outcome = "FP"
             /\ (~d.expected_match /\ ~d.actual_match) => d.outcome = "TN"
    /\ \A o \in {"TP", "FN", "FP", "TN"} : results[o] = Recorded(o)
    /\ results.TP + results.FN + results.FP + results.TN
           = Cardinality(EvaluatedCases)

\* C13 witness: test_rule returned after three evaluated test cases with
\* three different outcomes, one of them FN.
C13_Witness ==
    /\ engine_pc = "returned"
    /\ Len(details) = 3
    /\ Cardinality({ details[k].outcome : k \in DOMAIN details }) = 3
    /\ results.FN = 1

\* C14: a test case whose ingest or query failed is not recorded and is in no
\* counter, the test cases after it are still gone through, and the metrics
\* returned are those of the evaluated test cases only.
C14_FailedCaseSkipped ==
    /\ \A i \in 1..test_idx :
         es_log[i] # "ok" => \A k \in DOMAIN details : details[k].test_num # i
    /\ { details[k].test_num : k \in DOMAIN details } = EvaluatedCases
    /\ Len(details) = Cardinality(EvaluatedCases)
    /\ results.TP + results.FN + results.FP + results.TN = Len(details)
    /\ engine_pc = "returned" =>
         /\ test_idx = Len(test_cases)
         /\ Len(rule_metrics) = 1
         /\ rule_metrics[1].total = Cardinality(EvaluatedCases)
         /\ \A o \in {"TP", "FN", "FP", "TN"} : rule_metrics[1][o] = Recorded(o)

\* C14 witness: test_rule returned after an ingest failure, then an evaluated
\* test case, then a query failure.
C14_Witness ==
    /\ engine_pc = "returned"
    /\ es_log = << "ingest_failed", "ok", "query_failed" >>
    /\ Len(details) = 1
    /\ rule_metrics[1].total = 1

(***************************************************************************)
(* The functions of counts: calculate_metrics                              *)
(* (scripts/execute_detection_tests.py) and diagnose_failure               *)
(* (scripts/refine_detections_v2.py), applied to counts 0..MaxCount.       *)
(***************************************************************************)
MaxCount == 5           \* each of tp, fp, fn, tn is drawn from 0..MaxCount

\* what tests_dir / rule_id is: no directory, a directory without a *.json
\* file, or a directory with a sample payload
PayloadDirs == { "missing", "empty", "sample" }

\* diagnose_failure, by its issue and action
diagnose_failure(metrics, dir) ==
    LET tp == metrics.tp
        fp == metrics.fp
        fn == metrics.fn
    IN  IF tp = 0 /\ fp = 0
        THEN IF dir = "missing"
             THEN [issue |-> "no_test_payloads", action |-> "skip"]
             ELSE IF dir = "empty"
             THEN [issue |-> "no_test_payloads", action |-> "skip"]
             ELSE [issue |-> "field_mismatch", action |-> "research_and_convert"]
        ELSE IF fn > tp /\ tp > 0
        THEN [issue |-> "rule_too_strict", action |-> "research_evasion_techniques"]
        ELSE IF fp > tp /\ tp > 0
        THEN [issue |-> "rule_too_broad", action |-> "research_legitimate_uses"]
        ELSE [issue |-> "unknown", action |-> "manual_review"]

InitCounts ==
    /\ CtlIdle /\ AgentIdle /\ EngineIdle /\ MainIdle /\ RetryIdle /\ FsIdle /\ HelperIdle /\ ProcIdle
    /\ \E tp \in 0..MaxCount, fp \in 0..MaxCount, fn \in 0..MaxCount,
          tn \in 0..MaxCount : in_counts = Counts(tp, fp, fn, tn)
    /\ payload_dir \in PayloadDirs
    /\ metrics_out = << >>
    /\ diagnosis = [issue |-> "", action |-> ""]

\* calculate_metrics is called with the counts
CalculateMetrics ==
    /\ metrics_out = << >>
    /\ metrics_out' = << calculate_metrics(in_counts) >>
    /\ UNCHANGED << in_counts, payload_dir, diagnosis >>
    /\ UNCHANGED << ctl_vars, agent_vars, engine_vars, main_vars, retry_vars, fs_vars, helper_vars, proc_vars >>

\* diagnose_failure is called with the counts of a rule's metrics
DiagnoseFailure ==
    /\ diagnosis.issue = ""
    /\ diagnosis' = diagnose_failure(
           [tp |-> in_counts.TP, fp |-> in_counts.FP, tn |-> in_counts.TN,
            fn |-> in_counts.FN], payload_dir)
    /\ UNCHANGED << in_counts, payload_dir, metrics_out >>
    /\ UNCHANGED << ctl_vars, agent_vars, engine_vars, main_vars, retry_vars, fs_vars, helper_vars, proc_vars >>

NextCounts ==
    \/ CalculateMetrics
    \/ DiagnoseFailure

SpecCounts == InitCounts /\ [][NextCounts]_vars

(***************************************************************************)
(* Claims about the functions of counts.                                   *)
(***************************************************************************)
\* q thousandths is num / den to three decimals: at most half a thousandth off
ToThreeDecimals(q, num, den) ==
    LET diff == 1000 * num - q * den
    IN  2 * (IF diff < 0 THEN -diff ELSE diff) <= den

\* C15: for all non-negative counts calculate_metrics returns a value, with
\* precision 0 when tp + fp = 0 and tp / (tp + fp) otherwise, recall 0 when
\* tp + fn = 0 and tp / (tp + fn) otherwise, f1 0 when precision + recall = 0
\* and 2 * precision * recall / (precision + recall) otherwise, accuracy 0
\* when the total is 0 and (tp + tn) / total otherwise, each to three decimals.
C15_MetricsFormulas ==
    metrics_out # << >> =>
        LET m == metrics_out[1]
            tp == in_counts.TP
            fp == in_counts.FP
            fn == in_counts.FN
            tn == in_counts.TN
            total == tp + fp + fn + tn
            \* precision * recall and precision + recall over the common
            \* denominator (tp + fp) * (tp + fn)
            pr == tp * tp
            psum == tp * (tp + fn) + tp * (tp + fp)
        IN  /\ m.total = total
            /\ IF tp + fp = 0 THEN m.precision = 0
               ELSE ToThreeDecimals(m.precision, tp, tp + fp)
            /\ IF tp + fn = 0 THEN m.recall = 0
               ELSE ToThreeDecimals(m.recall, tp, tp + fn)
            /\ IF tp + fp = 0 \/ tp + fn = 0 \/ psum = 0 THEN m.f1_score = 0
               ELSE ToThreeDecimals(m.f1_score, 2 * pr, psum)
            /\ IF total = 0 THEN m.accuracy = 0
               ELSE ToThreeDecimals(m.accuracy, tp + tn, total)

\* C15 witness: calculate_metrics returned for tp = 2, fp = 1, fn = 0, tn = 0
\* (precision 0.667, recall 1.0, f1 0.8, accuracy 0.667).
C15_Witness ==
    /\ in_counts = Counts(2, 1, 0, 0)
    /\ metrics_out # << >>
    /\ metrics_out[1].precision = 667
    /\ metrics_out[1].recall = 1000
    /\ metrics_out[1].f1_score = 800
    /\ metrics_out[1].accuracy = 667

\* C17: the issue diagnose_failure returns is decided by the counts alone, by
\* first match: tp = 0 and fp = 0 gives field_mismatch; else fn > tp and
\* tp > 0 gives rule_too_strict; else fp > tp and tp > 0 gives rule_too_broad;
\* else unknown.
C17_IssueFromCountsAlone ==
    diagnosis.issue # "" =>
        LET tp == in_counts.TP
            fp == in_counts.FP
            fn == in_counts.FN
        IN  diagnosis.issue =
                IF tp = 0 /\ fp = 0 THEN "field_mismatch"
                ELSE IF fn > tp /\ tp > 0 THEN "rule_too_strict"
                ELSE IF fp > tp /\ tp > 0 THEN "rule_too_broad"
                ELSE "unknown"

\* C24: once the rule's index has been created for this run, and so at every
\* ingest of the run, the index holds only documents of this run's test
\* cases, whatever earlier runs left in it; no ingest is made before that.
C24_IndexRecreatedBeforeIngest ==
    /\ engine_pc = "start" => es_log = << >>
    /\ engine_pc \in {"loop", "returned"} =>
         \A d \in DOMAIN es_index : es_index[d].case \in 1..test_idx

\* C24 witness: the first test case was ingested into an index in which an
\* earlier run had left a matching document; it is the only document now.
C24_Witness ==
    /\ index_before = << [case |-> 0, hit |-> TRUE] >>
    /\ engine_pc = "loop"
    /\ es_log = << "ok" >>
    /\ es_index = << Document(1, test_cases[1]) >>

(***************************************************************************)
(* scripts/execute_detection_tests.py: main. test_rule is taken by what it *)
(* returns for a rule file: None, or a record with the four counters of at *)
(* most MaxCases evaluated test cases.                                     *)
(***************************************************************************)
MaxRuleFiles == 2       \* the rules directory holds 0..MaxRuleFiles *.yml files

TestRuleResults ==
    { [present |-> FALSE, results |-> NoCounts] } \cup
    { [present |-> TRUE, results |-> c] :
        c \in { t \in [TP : 0..MaxCases, FP : 0..MaxCases, FN : 0..MaxCases,
                       TN : 0..MaxCases] :
                  t.TP + t.FP + t.FN + t.TN <= MaxCases } }

\* sum(r['results'][key] for r in all_results)
RECURSIVE SumOf(_, _)
SumOf(list, key) ==
    IF list = << >> THEN 0 ELSE Head(list)[key] + SumOf(Tail(list), key)

\* variant of Aggregate: the counts are summed, the ratios are the averages
\* of the per-rule ratios
AggregateByAverage(list) ==
    LET n == Len(list)
        per_rule == [i \in 1..n |-> calculate_metrics(list[i])]
        sums == calculate_metrics(Counts(SumOf(list, "TP"), SumOf(list, "FP"),
                                         SumOf(list, "FN"), SumOf(list, "TN")))
    IN  IF n = 0 THEN sums
        ELSE [sums EXCEPT
                 !.precision = SumOf(per_rule, "precision") \div n,
                 !.recall = SumOf(per_rule, "recall") \div n,
                 !.f1_score = SumOf(per_rule, "f1_score") \div n,
                 !.accuracy = SumOf(per_rule, "accuracy") \div n]

\* the summary: calculate_metrics over total_tp, total_fn, total_fp, total_tn
Aggregate(list) ==
    calculate_metrics(Counts(SumOf(list, "TP"), SumOf(list, "FP"),
                             SumOf(list, "FN"), SumOf(list, "TN")))

InitMain ==
    /\ CtlIdle /\ AgentIdle /\ EngineIdle /\ CountsIdle /\ RetryIdle /\ FsIdle /\ HelperIdle /\ ProcIdle
    /\ main_pc = "start"
    /\ rule_files \in 0..MaxRuleFiles
    /\ files_done = 0
    /\ all_results = << >>
    /\ overall_metrics = << >>
    /\ exit_code = -1

\* Up to the loop: main returns 1 when the health check fails or when the
\* rules directory holds no rule file.
MainStart ==
    /\ main_pc = "start"
    /\ \E healthy \in BOOLEAN :
         IF ~healthy \/ rule_files = 0
         THEN main_pc' = "returned" /\ exit_code' = 1
         ELSE main_pc' = "loop" /\ UNCHANGED exit_code
    /\ UNCHANGED << rule_files, files_done, all_results, overall_metrics >>
    /\ UNCHANGED << ctl_vars, agent_vars, engine_vars, counts_vars, retry_vars, fs_vars, helper_vars, proc_vars >>

\* One pass of the loop over the rule files: a result is kept unless None.
MainTestRule ==
    /\ main_pc = "loop"
    /\ files_done < rule_files
    /\ files_done' = files_done + 1
    /\ \E r \in TestRuleResults :
         all_results' = IF r.present THEN Append(all_results, r.results)
                        ELSE all_results
    /\ UNCHANGED << main_pc, rule_files, overall_metrics, exit_code >>
    /\ UNCHANGED << ctl_vars, agent_vars, engine_vars, counts_vars, retry_vars, fs_vars, helper_vars, proc_vars >>

\* The summary: overall_metrics is computed, written to test_results.json,
\* and main returns 0.
MainSummary ==
    /\ main_pc = "loop"
    /\ files_done = rule_files
    /\ overall_metrics' = << Aggregate(all_results) >>
    /\ exit_code' = 0
    /\ main_pc' = "returned"
    /\ UNCHANGED << rule_files, files_done, all_results >>
    /\ UNCHANGED << ctl_vars, agent_vars, engine_vars, counts_vars, retry_vars, fs_vars, helper_vars, proc_vars >>

NextMain ==
    \/ MainStart
    \/ MainTestRule
    \/ MainSummary

SpecMain == InitMain /\ [][NextMain]_vars

(***************************************************************************)
(* Claims about main.                                                      *)
(***************************************************************************)
\* the sum of one counter over the results of all tested rules
Total(key) ==
    LET sum[i \in 0..Len(all_results)] ==
            IF i = 0 THEN 0 ELSE sum[i - 1] + all_results[i][key]
    IN  sum[Len(all_results)]

\* C16: overall_metrics holds the sums of the raw counts of all tested rules
\* and the ratios the formulas give for these sums, not averages of the
\* per-rule ratios.
C16_OverallFromSummedCounts ==
    overall_metrics # << >> =>
        LET m == overall_metrics[1]
            tp == Total("TP")
            fp == Total("FP")
            fn == Total("FN")
            tn == Total("TN")
        IN  /\ m.TP = tp /\ m.FP = fp /\ m.FN = fn /\ m.TN = tn
            /\ m.total = tp + fp + fn + tn
            /\ IF tp + fp = 0 THEN m.precision = 0
               ELSE ToThreeDecimals(m.precision, tp, tp + fp)
            /\ IF tp + fn = 0 THEN m.recall = 0
               ELSE ToThreeDecimals(m.recall, tp, tp + fn)
            /\ IF tp = 0 THEN m.f1_score = 0
               ELSE ToThreeDecimals(m.f1_score, 2 * tp, 2 * tp + fp + fn)
            /\ IF tp + fp + fn + tn = 0 THEN m.accuracy = 0
               ELSE ToThreeDecimals(m.accuracy, tp + tn, tp + fp + fn + tn)

\* C16 witness: two rules with counts {TP 1, TN 1} and {FN 1, TN 1}: the
\* overall precision is 1.0 and the overall recall 0.5, while the per-rule
\* precisions 1.0 and 0.0 average to 0.5.
C16_Witness ==
    /\ main_pc = "returned"
    /\ all_results = << Counts(1, 0, 0, 1), Counts(0, 0, 1, 1) >>
    /\ overall_metrics[1].precision = 1000
    /\ overall_metrics[1].recall = 500

(***************************************************************************)
(* detection_agent/agent.py: generate_with_retry. Sleeps are in seconds.   *)
(***************************************************************************)
MaxRetries == 5         \* max_retries is drawn from 0..MaxRetries

\* MODELS, with the retry_options of FLASH_RETRY_CONFIG and
\* AGGRESSIVE_RETRY_CONFIG as retry_config
MODELS ==
    [flash |-> [name |-> "gemini-2.5-flash",
                retry_config |-> [initial_delay |-> 8, attempts |-> 4,
                                  exp_base |-> 3, max_delay |-> 72]],
     pro   |-> [name |-> "gemini-2.5-pro",
                retry_config |-> [initial_delay |-> 15, attempts |-> 6,
                                  exp_base |-> 6, max_delay |-> 92]]]

\* what a generate_content call does: it returns a response, raises
\* ResourceExhausted (rate limit), or raises another exception
BackendAnswers == { "ok", "ResourceExhausted", "InvalidArgument" }

\* 2 ** n
RECURSIVE Pow2(_)
Pow2(n) == IF n = 0 THEN 1 ELSE 2 * Pow2(n - 1)

\* variant of Delay: the delay is not capped
DelayUncapped(n) == 20 * Pow2(n)

\* delay = min(20.0 * (2 ** attempt), 120.0)
Delay(n) == IF 20 * Pow2(n) < 120 THEN 20 * Pow2(n) ELSE 120

\* random.uniform(0, delay * 0.1): both ends and the middle
Jitters(delay) == { 0, delay \div 20, delay \div 10 }

\* generate_with_retry ended by returning the text of call number i
Returned(i) == [kind |-> "return", call |-> i, error |-> ""]

\* generate_with_retry ended by raising e
Raised(e) == [kind |-> "raise", call |-> 0, error |-> e]

\* variant of MoreAttempts: one attempt more than max_retries
MoreAttemptsInclusive(n) == n <= max_retries

\* for attempt in range(max_retries): attempt n is made
MoreAttempts(n) == n < max_retries

\* if attempt == max_retries - 1
LastAttempt(n) == n = max_retries - 1

InitRetry ==
    /\ CtlIdle /\ AgentIdle /\ EngineIdle /\ MainIdle /\ CountsIdle /\ FsIdle /\ HelperIdle /\ ProcIdle
    /\ retry_pc = "loop"
    /\ model_config \in { MODELS[tier] : tier \in DOMAIN MODELS }
    /\ max_retries \in 0..MaxRetries
    /\ attempt = 0
    /\ backend_calls = << >>
    /\ sleeps = << >>
    /\ retry_result = [kind |-> "none", call |-> 0, error |-> ""]

\* One pass of the loop: the call, and the handler of what it raised.
RetryAttempt ==
    /\ retry_pc = "loop"
    /\ MoreAttempts(attempt)
    /\ \E answer \in BackendAnswers :
         /\ backend_calls' = Append(backend_calls, answer)
         /\ IF answer = "ok"
            THEN /\ retry_result' = Returned(Len(backend_calls'))
                 /\ retry_pc' = "done"
                 /\ UNCHANGED << attempt, sleeps >>
            ELSE IF LastAttempt(attempt)
            THEN /\ retry_result' = Raised(answer)
                 /\ retry_pc' = "done"
                 /\ UNCHANGED << attempt, sleeps >>
            ELSE /\ IF answer = "ResourceExhausted"
                    THEN \E jitter \in Jitters(Delay(attempt)) :
                           sleeps' = Append(sleeps, Delay(attempt) + jitter)
                    ELSE sleeps' = Append(sleeps, 5)
                 /\ attempt' = attempt + 1
                 /\ UNCHANGED << retry_pc, retry_result >>
    /\ UNCHANGED << model_config, max_retries >>
    /\ UNCHANGED << ctl_vars, agent_vars, engine_vars, main_vars, counts_vars, fs_vars, helper_vars, proc_vars >>

\* After the loop: raise Exception("Max retries exceeded").
RetryGiveUp ==
    /\ retry_pc = "loop"
    /\ ~MoreAttempts(attempt)
    /\ retry_result' = Raised("Max retries exceeded")
    /\ retry_pc' = "done"
    /\ UNCHANGED << model_config, max_retries, attempt, backend_calls, sleeps >>
    /\ UNCHANGED << ctl_vars, agent_vars, engine_vars, main_vars, counts_vars, fs_vars, helper_vars, proc_vars >>

NextRetry ==
    \/ RetryAttempt
    \/ RetryGiveUp

SpecRetry == InitRetry /\ [][NextRetry]_vars

(***************************************************************************)
(* Claims about generate_with_retry.                                       *)
(***************************************************************************)
\* C18: a call failing with an error other than the rate-limit error is the
\* last call: the error is raised to the caller at once, with no retry wait
\* and no further call.
C18_OtherErrorRaisedAtOnce ==
    \A i \in DOMAIN backend_calls :
        backend_calls[i] \notin {"ok", "ResourceExhausted"} =>
            /\ Len(backend_calls) = i
            /\ Len(sleeps) < i
            /\ retry_result.kind = "raise"
            /\ retry_result.error = backend_calls[i]

\* C19: at most max_retries calls are made; a successful call is the last
\* call and its response is what is returned; when every call of the budget
\* fails with the rate-limit error the function ends by raising after call
\* number max_retries, and it returns no value unless a call succeeded.
C19_BoundedCallsFirstSuccess ==
    /\ max_retries >= 0
    /\ Len(backend_calls) <= max_retries
    /\ \A i \in DOMAIN backend_calls :
         backend_calls[i] = "ok" =>
             /\ Len(backend_calls) = i
             /\ retry_result.kind = "return" /\ retry_result.call = i
    /\ retry_result.kind = "return" =>
         /\ retry_result.call \in DOMAIN backend_calls
         /\ backend_calls[retry_result.call] = "ok"
    /\ ( /\ retry_pc = "done"
         /\ \A i \in DOMAIN backend_calls : backend_calls[i] = "ResourceExhausted" )
       => /\ retry_result.kind = "raise"
          /\ Len(backend_calls) = max_retries

\* C19 witness: with max_retries = 3 all three calls were rate limited, two
\* waits were made and the function raised.
C19_Witness ==
    /\ max_retries = 3
    /\ backend_calls = << "ResourceExhausted", "ResourceExhausted",
                          "ResourceExhausted" >>
    /\ Len(sleeps) = 2
    /\ retry_result = Raised("ResourceExhausted")

\* every call made so far was answered with the rate-limit error
AllRateLimited ==
    \A i \in DOMAIN backend_calls : backend_calls[i] = "ResourceExhausted"

\* C26: the wait made after the rate-limited attempt number a (a = 0, 1, ...)
\* is delay + jitter with delay = min(20 * 2^a, 120) and
\* 0 <= jitter <= 0.1 * delay; the delays do not decrease with a and never
\* exceed 120; no wait follows the last attempt of the budget.
C26_BackoffDelayAndJitter ==
    /\ \A i \in DOMAIN sleeps :
         backend_calls[i] = "ResourceExhausted" =>
             LET a == i - 1
                 delay == IF 20 * (2 ^ a) < 120 THEN 20 * (2 ^ a) ELSE 120
                 earlier == IF a = 0 THEN 0
                            ELSE IF 20 * (2 ^ (a - 1)) < 120
                                 THEN 20 * (2 ^ (a - 1)) ELSE 120
                 jitter == sleeps[i] - delay
             IN  /\ 0 <= jitter
                 /\ 10 * jitter <= delay
                 /\ earlier <= delay
                 /\ delay <= 120
    /\ Len(sleeps) <= Len(backend_calls)
    /\ ( max_retries > 0 /\ Len(backend_calls) = max_retries )
       => Len(sleeps) < max_retries

\* C26 witness: with max_retries = 5 all five calls were rate limited; the
\* fourth wait has the capped delay 120 and the largest jitter 12, and no
\* wait follows the fifth call.
C26_Witness ==
    /\ max_retries = 5
    /\ Len(backend_calls) = 5
    /\ AllRateLimited
    /\ Len(sleeps) = 4
    /\ sleeps[1] = 20
    /\ sleeps[4] = 132
    /\ retry_result = Raised("ResourceExhausted")

\* C27: under a backend that keeps answering with the rate-limit error, the
\* number of calls made is the attempts of the retry_config of the
\* model_config passed in, and the wait after attempt number a is
\* min(initial_delay * exp_base^a, max_delay) of that retry_config plus a
\* jitter of at most a tenth of it.
C27_TierBudgetAndBackoffUsed ==
    ( /\ retry_pc = "done"
      /\ backend_calls # << >>
      /\ AllRateLimited )
    => LET rc == model_config.retry_config
       IN  /\ Len(backend_calls) = rc.attempts
           /\ \A i \in DOMAIN sleeps :
                LET grown == rc.initial_delay * (rc.exp_base ^ (i - 1))
                    delay == IF grown < rc.max_delay THEN grown
                             ELSE rc.max_delay
                IN  /\ delay <= sleeps[i]
                    /\ 10 * (sleeps[i] - delay) <= delay

(***************************************************************************)
(* run_with_quality_retry seen from the disk: what run_detection_agent     *)
(* writes (agent.py, step 5), what the test engine loads and writes        *)
(* (execute_detection_tests.py, main) and what run_integration_tests reads.*)
(* A file carries the number of the iteration that wrote it, 0 for a file  *)
(* that was there before the run.                                          *)
(***************************************************************************)
RuleNames == { "rule_a", "rule_b" }

\* output_dir / "<name>.json", written in iteration k
SavedRule(name, k) ==
    [dir |-> "output_dir", ext |-> "json", rule |-> name, iter |-> k]

\* files a run can find when it starts: rule files saved by an earlier run,
\* and *.yml rule files in output_dir / 'detection_rules'
EarlierFiles ==
    { SavedRule(name, 0) : name \in RuleNames } \cup
    { [dir |-> "output_dir/detection_rules", ext |-> "yml", rule |-> name,
       iter |-> 0] : name \in RuleNames }

\* open(rule_file, 'w'): the files of names replace those at the same path
Written(files, names, k) ==
    { f \in files : ~(f.dir = "output_dir" /\ f.ext = "json" /\ f.rule \in names) }
        \cup { SavedRule(name, k) : name \in names }

InitFiles ==
    /\ CtlIdle /\ AgentIdle /\ EngineIdle /\ MainIdle /\ CountsIdle /\ RetryIdle /\ HelperIdle /\ ProcIdle
    /\ fs_pc = "loop"
    /\ fs_iteration = 0
    /\ fs_files \in SUBSET EarlierFiles
    /\ fs_tested = {}
    /\ fs_results_file \in { -1, 0 }
    /\ fs_metrics = -1

\* Phase 1 of an iteration: run_detection_agent saves its validated rules;
\* with no rule the iteration ends.
FsGenerate ==
    /\ fs_pc = "loop"
    /\ fs_iteration < MaxIterations
    /\ fs_iteration' = fs_iteration + 1
    /\ \E names \in SUBSET RuleNames :
         /\ fs_files' = Written(fs_files, names, fs_iteration')
         /\ fs_pc' = IF names = {} THEN "loop" ELSE "tests"
    /\ fs_tested' = {}
    /\ fs_metrics' = -1
    /\ UNCHANGED fs_results_file
    /\ UNCHANGED << ctl_vars, agent_vars, engine_vars, main_vars, counts_vars, retry_vars, helper_vars, proc_vars >>

\* Phase 2 of an iteration: run_integration_tests. The engine loads the *.yml
\* files of output_dir / 'detection_rules'; when it exits with 0 it has
\* written test_results.json, which is then read.
FsIntegrationTests ==
    /\ fs_pc = "tests"
    /\ \E healthy \in BOOLEAN :
         IF healthy /\ LoadedRuleFiles(fs_files) # {}
         THEN /\ fs_tested' = LoadedRuleFiles(fs_files)
              /\ fs_results_file' = fs_iteration
              /\ fs_metrics' = fs_results_file'
         ELSE UNCHANGED << fs_tested, fs_results_file, fs_metrics >>
    /\ fs_pc' \in { "loop", "returned" }
    /\ UNCHANGED << fs_iteration, fs_files >>
    /\ UNCHANGED << ctl_vars, agent_vars, engine_vars, main_vars, counts_vars, retry_vars, helper_vars, proc_vars >>

NextFiles ==
    \/ FsGenerate
    \/ FsIntegrationTests

SpecFiles == InitFiles /\ [][NextFiles]_vars

(***************************************************************************)
(* Claims about the files of an iteration.                                 *)
(***************************************************************************)
\* C21: every rule file tested in iteration k was written in iteration k,
\* and the metrics evaluated in iteration k were computed in iteration k.
C21_OnlyThisIterationsRulesAndMetrics ==
    /\ \A f \in fs_tested : f.iter = fs_iteration
    /\ fs_metrics # -1 => fs_metrics = fs_iteration

(***************************************************************************)
(* Claims about what run_with_quality_retry carries from one iteration to  *)
(* the next.                                                               *)
(***************************************************************************)
\* C22: the feedback attached to iteration k + 1 (its feedback file) is built
\* from the test results of iteration k: a feedback file is written for
\* iteration k + 1 only when iteration k was tested below threshold.
C22_FeedbackFromPreviousIteration ==
    \A k \in feedback_files :
        /\ k - 1 \in DOMAIN iteration_history
        /\ iteration_history[k - 1].status = BelowStatus

\* C23: whenever an iteration after the first has started, the loop has made
\* one cooldown sleep after each iteration before it.
C23_CooldownBetweenIterations ==
    iteration >= 2 => Len(cooldowns) >= iteration - 1

(***************************************************************************)
(* The helper functions, each called on its own with arguments drawn from  *)
(* bounded sets.                                                           *)
(***************************************************************************)
MaxNameLen == 2         \* characters of a rule file name (rule_file.stem)
MaxTextLen == 4         \* tokens of the text given to safe_json_parse
MaxFailing == 1         \* entries of failing_rules
MaxExamples == 4        \* false negatives, and false positives, of one entry
MaxTimeout == 6         \* timeout of wait_for_elasticsearch, in seconds

\* all sequences over S of at most n elements
SeqsUpTo(S, n) == UNION { [1..k -> S] : k \in 0..n }

\* the least element of a non-empty set of positions
First(S) == CHOOSE i \in S : \A j \in S : i <= j

\* characters of a rule file name
NameChars == { "a", "A", "_", "-", " " }

\* names of two different rule files of rules_dir (main: rule_file.stem)
RuleNamePairs ==
    { pair \in [1..2 -> SeqsUpTo(NameChars, MaxNameLen) \ { << >> }] :
        pair[1] # pair[2] }

\* test_rule: f"test-{rule_name.lower().replace(' ', '-').replace('_', '-')}"
index_name(rule_name) ==
    << "test-" >> \o
    [i \in DOMAIN rule_name |->
        LET lower == IF rule_name[i] = "A" THEN "a" ELSE rule_name[i]
            dashed == IF lower = " " THEN "-" ELSE lower
        IN  IF dashed = "_" THEN "-" ELSE dashed]

(***************************************************************************)
(* safe_json_parse. A text is a sequence of tokens: a fence of three back  *)
(* quotes, the language tag json, the digit 1, a character x that no JSON  *)
(* text holds, and white space. A text parses as JSON when, white space at *)
(* both ends apart, it is a non-empty run of digits.                       *)
(***************************************************************************)
Tokens == { "fence", "json", "1", "x", " " }

Texts == SeqsUpTo(Tokens, MaxTextLen)

\* str.strip()
strip(s) ==
    LET inked == { i \in DOMAIN s : s[i] # " " }
    IN  IF inked = {} THEN << >>
        ELSE SubSeq(s, First(inked), First({ i \in inked : \A j \in inked : j <= i }))

\* json.loads(s): the value, or JSONDecodeError
json_loads(s) ==
    IF strip(s) # << >> /\ \A i \in DOMAIN strip(s) : strip(s)[i] = "1"
    THEN [kind |-> "return", value |-> strip(s)]
    ELSE [kind |-> "raise", value |-> << >>]

\* s[:-1]: s without its last character; what is left of a fence or of a tag
\* is a run of characters no JSON text holds
without_last_character(s) ==
    IF s = << >> THEN << >>
    ELSE IF s[Len(s)] \in { "fence", "json" }
    THEN SubSeq(s, 1, Len(s) - 1) \o << "x" >>
    ELSE SubSeq(s, 1, Len(s) - 1)

\* end = text.find(fence, start); text[start:end]: find answers -1 when no
\* fence follows, and the slice then ends before the last character
slice_to_fence(s, start) ==
    LET closing == { i \in start..Len(s) : s[i] = "fence" }
    IN  IF closing = {} THEN without_last_character(SubSeq(s, start, Len(s)))
        ELSE SubSeq(s, start, First(closing) - 1)

safe_json_parse(s) ==
    LET tagged == { i \in 1..(Len(s) - 1) : s[i] = "fence" /\ s[i + 1] = "json" }
        fences == { i \in DOMAIN s : s[i] = "fence" }
    IN  IF json_loads(s).kind = "return" THEN json_loads(s)
        ELSE IF tagged # {}
        THEN json_loads(strip(slice_to_fence(s, First(tagged) + 2)))
        ELSE IF fences # {}
        THEN json_loads(strip(slice_to_fence(s, First(fences) + 1)))
        ELSE [kind |-> "raise", value |-> << >>]

(***************************************************************************)
(* create_refinement_prompt. An entry of failing_rules holds its examples  *)
(* by number; the prompt is the sequence of its lines under "Test Failures *)
(* Analysis", one line standing for the lines written for one example.     *)
(***************************************************************************)
Examples(n) == [i \in 1..n |-> i]

FailingRules ==
    SeqsUpTo([false_negatives : { Examples(n) : n \in 0..MaxExamples },
              false_positives : { Examples(n) : n \in 0..MaxExamples }],
             MaxFailing)

Line(r, kind, example) == [rule |-> r, line |-> kind, example |-> example]

\* variant of first_three: the whole list
whole_list(list) == list

\* list[:3]
first_three(list) == SubSeq(list, 1, IF Len(list) < 3 THEN Len(list) ELSE 3)

\* the lines written for entry number r of failing_rules
failure_lines(r, failure) ==
    LET fns == first_three(failure.false_negatives)
        fps == first_three(failure.false_positives)
    IN  << Line(r, "rule", 0) >>
        \o ( IF failure.false_negatives # << >>
             THEN << Line(r, "false_negatives", 0) >>
                  \o [i \in DOMAIN fns |-> Line(r, "fn", fns[i])]
             ELSE << >> )
        \o ( IF failure.false_positives # << >>
             THEN << Line(r, "false_positives", 0) >>
                  \o [i \in DOMAIN fps |-> Line(r, "fp", fps[i])]
             ELSE << >> )

RECURSIVE create_refinement_prompt(_, _)
create_refinement_prompt(failures, r) ==
    IF r > Len(failures) THEN << >>
    ELSE failure_lines(r, failures[r]) \o create_refinement_prompt(failures, r + 1)

(***************************************************************************)
(* wait_for_elasticsearch. Time is in whole seconds.                       *)
(***************************************************************************)
\* what a health check does: status 200 with a JSON object as body, status
\* 200 with a body that is no JSON object, another status, a refused
\* connection, no answer within the 3 seconds of requests.get(timeout=3)
HealthAnswers == { "200", "200_no_json", "503", "ConnectionError", "ReadTimeout" }

\* seconds a health check takes
Durations(answer) == IF answer = "ReadTimeout" THEN { 3 } ELSE { 0, 1 }

\* variant of Ready: the status alone decides
ReadyOnStatus(answer) == answer \in { "200", "200_no_json" }

\* status_code == 200, and response.json() and health.get raise nothing
Ready(answer) == answer = "200"

\* the calls that are made: the function and its argument
HelperCalls ==
    LET Call(f, names, txt, failures, t) ==
            [call |-> f, rule_names |-> names, response_text |-> txt,
             failing_rules |-> failures, timeout |-> t]
    IN  { Call("test_rule", pair, << >>, << >>, 0) : pair \in RuleNamePairs }
        \cup { Call("safe_json_parse", << >>, txt, << >>, 0) : txt \in Texts }
        \cup { Call("create_refinement_prompt", << >>, << >>, failures, 0) :
                 failures \in FailingRules }
        \cup { Call("wait_for_elasticsearch", << >>, << >>, << >>, t) :
                 t \in 0..MaxTimeout }

InitHelpers ==
    /\ CtlIdle /\ AgentIdle /\ EngineIdle /\ MainIdle /\ CountsIdle /\ RetryIdle /\ FsIdle /\ ProcIdle
    /\ \E c \in HelperCalls :
         /\ helper_call = c.call
         /\ rule_names = c.rule_names
         /\ response_text = c.response_text
         /\ failing_rules = c.failing_rules
         /\ timeout = c.timeout
    /\ index_names = << >>
    /\ parsed = [kind |-> "none", value |-> << >>]
    /\ prompt = << >>
    /\ elapsed = 0
    /\ health_checks = << >>
    /\ wait_result = "none"

\* main tests both rule files: test_rule derives the index name of each.
TestRuleIndexNames ==
    /\ helper_call = "test_rule"
    /\ index_names = << >>
    /\ index_names' = << index_name(rule_names[1]), index_name(rule_names[2]) >>
    /\ UNCHANGED << helper_call, rule_names, response_text, parsed,
                    failing_rules, prompt, timeout, elapsed, health_checks,
                    wait_result >>
    /\ UNCHANGED << ctl_vars, agent_vars, engine_vars, main_vars, counts_vars, retry_vars, fs_vars, proc_vars >>

SafeJsonParse ==
    /\ helper_call = "safe_json_parse"
    /\ parsed.kind = "none"
    /\ parsed' = safe_json_parse(response_text)
    /\ UNCHANGED << helper_call, rule_names, index_names, response_text,
                    failing_rules, prompt, timeout, elapsed, health_checks,
                    wait_result >>
    /\ UNCHANGED << ctl_vars, agent_vars, engine_vars, main_vars, counts_vars, retry_vars, fs_vars, proc_vars >>

CreateRefinementPrompt ==
    /\ helper_call = "create_refinement_prompt"
    /\ prompt = << >>
    /\ prompt' = << create_refinement_prompt(failing_rules, 1) >>
    /\ UNCHANGED << helper_call, rule_names, index_names, response_text,
                    parsed, failing_rules, timeout, elapsed, health_checks,
                    wait_result >>
    /\ UNCHANGED << ctl_vars, agent_vars, engine_vars, main_vars, counts_vars, retry_vars, fs_vars, proc_vars >>

\* One pass of the loop of wait_for_elasticsearch: the health check, and
\* time.sleep(2) unless the function returns.
WaitHealthCheck ==
    /\ helper_call = "wait_for_elasticsearch"
    /\ wait_result = "none"
    /\ elapsed < timeout
    /\ \E answer \in HealthAnswers : \E took \in Durations(answer) :
         /\ health_checks' = Append(health_checks, answer)
         /\ IF Ready(answer)
            THEN /\ wait_result' = "True"
                 /\ elapsed' = elapsed + took
            ELSE /\ elapsed' = elapsed + took + 2
                 /\ UNCHANGED wait_result
    /\ UNCHANGED << helper_call, rule_names, index_names, response_text,
                    parsed, failing_rules, prompt, timeout >>
    /\ UNCHANGED << ctl_vars, agent_vars, engine_vars, main_vars, counts_vars, retry_vars, fs_vars, proc_vars >>

\* The loop condition fails: return False.
WaitTimedOut ==
    /\ helper_call = "wait_for_elasticsearch"
    /\ wait_result = "none"
    /\ ~(elapsed < timeout)
    /\ wait_result' = "False"
    /\ UNCHANGED << helper_call, rule_names, index_names, response_text,
                    parsed, failing_rules, prompt, timeout, elapsed,
                    health_checks >>
    /\ UNCHANGED << ctl_vars, agent_vars, engine_vars, main_vars, counts_vars, retry_vars, fs_vars, proc_vars >>

NextHelpers ==
    \/ TestRuleIndexNames
    \/ SafeJsonParse
    \/ CreateRefinementPrompt
    \/ WaitHealthCheck
    \/ WaitTimedOut

SpecHelpers == InitHelpers /\ [][NextHelpers]_vars

\* wait_for_elasticsearch runs on its own thread of control: a pass of its
\* loop that can be made is made
SpecWait ==
    InitHelpers /\ [][NextHelpers]_vars
    /\ WF_vars(WaitHealthCheck) /\ WF_vars(WaitTimedOut)

(***************************************************************************)
(* Claims about the helper functions.                                      *)
(***************************************************************************)
\* C25: the index names test_rule derives for two different rule names are
\* different.
C25_DistinctRulesDistinctIndexes ==
    ( index_names # << >> /\ rule_names[1] # rule_names[2] )
    => index_names[1] # index_names[2]

\* the lines of the prompt that list an example of the given kind for entry r
Listed(r, kind) ==
    { i \in DOMAIN prompt[1] :
        prompt[1][i].rule = r /\ prompt[1][i].line = kind }

\* C28: for each entry of failing_rules the prompt lists the first three of
\* its false negatives and the first three of its false positives, or all of
\* them when there are fewer: never more than three of either, so that a
\* list of more than three is never included whole.
C28_AtMostThreeExamplesEach ==
    prompt # << >> =>
        \A r \in DOMAIN failing_rules :
            LET fns == Len(failing_rules[r].false_negatives)
                fps == Len(failing_rules[r].false_positives)
            IN  /\ Cardinality(Listed(r, "fn")) <= 3
                /\ Cardinality(Listed(r, "fp")) <= 3
                /\ { prompt[1][i].example : i \in Listed(r, "fn") }
                     = { n \in 1..fns : n <= 3 }
                /\ { prompt[1][i].example : i \in Listed(r, "fp") }
                     = { n \in 1..fps : n <= 3 }

\* C28 witness: an entry with four false negatives and four false positives,
\* of which the prompt lists three each.
C28_Witness ==
    /\ prompt # << >>
    /\ Len(failing_rules) = 1
    /\ Len(failing_rules[1].false_negatives) = 4
    /\ Len(failing_rules[1].false_positives) = 4
    /\ Cardinality(Listed(1, "fn")) = 3
    /\ Cardinality(Listed(1, "fp")) = 3

\* the content of the first fenced block of the text, language tag apart;
\* << >> in a one-element sequence, or << >> when the text has no fenced block
FirstFencedBlock ==
    LET fences == { i \in DOMAIN response_text : response_text[i] = "fence" }
        opening == First(fences)
        closing == First(fences \ { opening })
        inside == SubSeq(response_text, opening + 1, closing - 1)
    IN  IF Cardinality(fences) < 2 THEN << >>
        ELSE IF inside # << >> /\ inside[1] = "json" THEN << Tail(inside) >>
        ELSE << inside >>

\* C29: safe_json_parse returns the parse of the whole text when it parses;
\* otherwise the parse of the content of the first fenced block when there
\* is one and it parses; otherwise it raises. It returns no value when
\* neither parses.
C29_WholeTextThenFencedBlock ==
    parsed.kind # "none" =>
        IF json_loads(response_text).kind = "return"
        THEN parsed = json_loads(response_text)
        ELSE IF FirstFencedBlock # << >>
                /\ json_loads(FirstFencedBlock[1]).kind = "return"
        THEN parsed = json_loads(FirstFencedBlock[1])
        ELSE parsed.kind = "raise"

\* a health check answered with status 200
Answered200(i) == health_checks[i] \in { "200", "200_no_json" }

\* C30 as stated: the function returns true at the first health check that
\* answers with status 200, returns false only when the timeout has elapsed
\* and never returns true without such a check.
C30_TrueOnFirstStatus200 ==
    /\ \A i \in DOMAIN health_checks :
         Answered200(i) => /\ i = Len(health_checks)
                           /\ wait_result = "True"
    /\ wait_result = "True" =>
         /\ health_checks # << >>
         /\ Answered200(Len(health_checks))
    /\ wait_result = "False" => elapsed >= timeout

\* C30, amended: wait_for_elasticsearch always returns; it returns true at
\* the first health check that answers with status 200 and a JSON object as
\* body, and never without one; a check that answers otherwise, fails or
\* hangs and then fails, a status 200 with another body included, is
\* followed by another check as long as the timeout has not elapsed, and
\* false is returned only once it has elapsed.
C30_WaitTerminates ==
    /\ [](/\ \A i \in DOMAIN health_checks :
               health_checks[i] = "200" => /\ i = Len(health_checks)
                                           /\ wait_result = "True"
          /\ wait_result = "True" =>
               /\ health_checks # << >>
               /\ health_checks[Len(health_checks)] = "200"
          /\ wait_result = "False" => elapsed >= timeout)
    /\ (helper_call = "wait_for_elasticsearch") ~> (wait_result # "none")

\* C30 witness: with a timeout of 6 seconds a first check answered 200 with
\* a body that is no JSON object, a second answered 503 and a third answered
\* 200 with a JSON object, and true was returned.
C30_Witness ==
    /\ timeout = 6
    /\ health_checks = << "200_no_json", "503", "200" >>
    /\ wait_result = "True"


(***************************************************************************)
(* Claims about a blocking security scan.                                  *)
(***************************************************************************)
\* C32: after the security scan of run_detection_agent answered BLOCK the
\* run ends in its scan step: no rule-generation prompt was built, no rule
\* was validated or saved, no test was run on that iteration and nothing is
\* returned; and no later iteration is started.
C32_BlockStopsEverything ==
    /\ [](pc = "exited" =>
            /\ result.kind = "exit"
            /\ result.step = "scan"
            /\ result.rules_generated = 0
            /\ generation_prompt = << >>
            /\ iteration \notin tests_run
            /\ \A k \in DOMAIN iteration_history :
                   iteration_history[k].iteration # iteration
            /\ retval = NoReturn)
    /\ [][pc = "exited" => pc' = "exited" /\ iteration' = iteration]_vars

\* C32 witness: the scan of the second of three iterations blocked.
C32_Witness ==
    /\ pc = "exited"
    /\ max_iterations = 3
    /\ iteration = 2


(***************************************************************************)
(* Further procedures, each run on its own with arguments drawn from       *)
(* bounded sets.                                                           *)
(***************************************************************************)
MaxRuleCases == 2       \* test cases of a generated rule

\* TestCase: type and expected_match are independent fields
RuleCaseLists ==
    SeqsUpTo([type : {"TP", "FN", "FP", "TN"}, expected_match : BOOLEAN],
             MaxRuleCases)

\* A generated rule goes through step 4 of run_detection_agent and, when it
\* is approved, through the loop of test_rule, which runs every test case of
\* the rule it is given.
ValidateAndTestRule ==
    /\ proc_call = "test_cases"
    /\ entered_cases = << >>
    /\ \E approved \in BOOLEAN :
         LET rule == [types |-> { rule_cases[i].type : i \in DOMAIN rule_cases },
                      risk_score |-> 0]
         IN  entered_cases' =
                 IF validate_test_cases(rule).valid /\ approved
                 THEN << rule_cases >>
                 ELSE << << >> >>
    /\ UNCHANGED << proc_call, rule_cases, payloads, other_matches,
                    detections, search_error, shared_counts,
                    original_payload, payload_file, backup_file,
                    mapping_runs, field_names, max_concurrent, batch_start,
                    in_flight, batch_results, research_results,
                    research_sleeps, research_return, iterations,
                    runner_iteration, current_query, runner_output,
                    runner_runs, runner_result, refine_max_iterations,
                    refine_iteration, failure_history, refine_sleeps,
                    refine_result, rule_evaluations, test_results,
                    passing_rules, staged_batch, filter_exit >>
    /\ UNCHANGED << ctl_vars, agent_vars, engine_vars, main_vars, counts_vars, retry_vars, fs_vars, helper_vars >>

MaxPayloads == 2        \* payload files of the rule

\* "size": 100 of the search request
SearchSize == 100

\* payload_map[rule_dir]: expected_alert of each payload, and whether its
\* log_entry satisfies the rule's query
PayloadLists ==
    SeqsUpTo([expected : BOOLEAN, satisfies : BOOLEAN], MaxPayloads) \ { << >> }

\* calculate_metrics: the counts of one rule
shared_index_counts(rule_payloads, detected_ids) ==
    LET n(expected, detected) ==
            Cardinality({ i \in DOMAIN rule_payloads :
                            /\ rule_payloads[i].expected = expected
                            /\ (i \in detected_ids) = detected })
    IN  [tp |-> n(TRUE, TRUE), fp |-> n(FALSE, TRUE),
         tn |-> n(FALSE, FALSE), fn |-> n(TRUE, FALSE)]

\* run_detection_queries and calculate_metrics for one rule: the search
\* answers with at most SearchSize of the documents that satisfy the query,
\* whichever the engine ranks first, or raises, which leaves no detection.
RunDetectionQueries ==
    /\ proc_call = "run_detection_queries"
    /\ detections = << >>
    /\ LET satisfying == { i \in DOMAIN payloads : payloads[i].satisfies }
           total == Cardinality(satisfying) + other_matches
           returned == IF total < SearchSize THEN total ELSE SearchSize
       IN  \E hits \in SUBSET satisfying :
             /\ \/ /\ Cardinality(hits) <= returned
                   /\ returned - Cardinality(hits) <= other_matches
                   /\ search_error' = FALSE
                \/ /\ hits = {}
                   /\ search_error' = TRUE    \* except Exception
             /\ detections' = << hits >>
             /\ shared_counts' = shared_index_counts(payloads, hits)
    /\ UNCHANGED << proc_call, rule_cases, entered_cases, payloads,
                    other_matches, original_payload, payload_file,
                    backup_file, mapping_runs, field_names, max_concurrent,
                    batch_start, in_flight, batch_results, research_results,
                    research_sleeps, research_return, iterations,
                    runner_iteration, current_query, runner_output,
                    runner_runs, runner_result, refine_max_iterations,
                    refine_iteration, failure_history, refine_sleeps,
                    refine_result, rule_evaluations, test_results,
                    passing_rules, staged_batch, filter_exit >>
    /\ UNCHANGED << ctl_vars, agent_vars, engine_vars, main_vars, counts_vars, retry_vars, fs_vars, helper_vars >>

MaxAttempts == 2        \* refinement attempts, each running apply_field_mapping

\* field names before and after conversion
SourceFields == { "commandLine", "user" }

ecs_field(source_field) ==
    IF source_field = "commandLine" THEN "process.command_line" ELSE "user.name"

\* a payload file: whether it holds a log_entry, and the fields of it
Payloads ==
    [has_log_entry : BOOLEAN, fields : SUBSET SourceFields \ { {} }]

\* the loop body of apply_field_mapping from "convert" on: mapped fields are
\* renamed, unmapped fields are kept
converted(payload, field_mappings) ==
    [payload EXCEPT !.fields =
        { IF f \in field_mappings THEN ecs_field(f) ELSE f : f \in payload.fields }]

\* One run of apply_field_mapping on the rule: the payload file is copied to
\* backup_dir / rule_id under its own name, then converted and written back
\* when it holds a log_entry.
ApplyFieldMapping ==
    /\ proc_call = "apply_field_mapping"
    /\ mapping_runs < MaxAttempts
    /\ mapping_runs' = mapping_runs + 1
    /\ backup_file' = << payload_file >>
    /\ \E field_mappings \in SUBSET SourceFields :
         payload_file' = IF payload_file.has_log_entry
                         THEN converted(payload_file, field_mappings)
                         ELSE payload_file
    /\ UNCHANGED << proc_call, rule_cases, entered_cases, payloads,
                    other_matches, detections, search_error, shared_counts,
                    original_payload, field_names, max_concurrent,
                    batch_start, in_flight, batch_results, research_results,
                    research_sleeps, research_return, iterations,
                    runner_iteration, current_query, runner_output,
                    runner_runs, runner_result, refine_max_iterations,
                    refine_iteration, failure_history, refine_sleeps,
                    refine_result, rule_evaluations, test_results,
                    passing_rules, staged_batch, filter_exit >>
    /\ UNCHANGED << ctl_vars, agent_vars, engine_vars, main_vars, counts_vars, retry_vars, fs_vars, helper_vars >>

MaxFields == 3          \* length of field_names
MaxConcurrent == 2      \* max_concurrent is drawn from 1..MaxConcurrent

FieldNames == { "event.category", "custom.weird.field" }

\* what a generate_content call of research_ecs_field ends in: JSON with
\* valid true or false, JSON without a required key, text that is no JSON, an
\* exception
ResearchAnswers == { "valid", "invalid", "incomplete", "no_json", "exception" }

\* research_ecs_field: every answer becomes a returned dictionary
research_ecs_field(answer) ==
    IF answer = "valid" THEN [valid |-> TRUE, error |-> FALSE]
    ELSE IF answer = "invalid" THEN [valid |-> FALSE, error |-> FALSE]
    ELSE [valid |-> FALSE, error |-> TRUE]

\* variant of batch: everything from position i on
batch_to_end(i) == (i + 1)..Len(field_names)

\* field_names[i:i + max_concurrent], as positions counted from 1
batch(i) ==
    { p \in (i + 1)..(i + max_concurrent) : p <= Len(field_names) }

\* for i in range(0, len(field_names), max_concurrent): the tasks of the
\* batch are created and asyncio.gather starts them.
ResearchStartBatch ==
    /\ proc_call = "research_multiple_fields"
    /\ research_return = << >>
    /\ batch_start < Len(field_names)
    /\ in_flight = {} /\ batch_results = {}
    /\ in_flight' = batch(batch_start)
    /\ UNCHANGED << proc_call, rule_cases, entered_cases, payloads,
                    other_matches, detections, search_error, shared_counts,
                    original_payload, payload_file, backup_file,
                    mapping_runs, field_names, max_concurrent, batch_start,
                    batch_results, research_results, research_sleeps,
                    research_return, iterations, runner_iteration,
                    current_query, runner_output, runner_runs, runner_result,
                    refine_max_iterations, refine_iteration, failure_history,
                    refine_sleeps, refine_result, rule_evaluations,
                    test_results, passing_rules, staged_batch, filter_exit >>
    /\ UNCHANGED << ctl_vars, agent_vars, engine_vars, main_vars, counts_vars, retry_vars, fs_vars, helper_vars >>

\* One research_ecs_field call of the batch ends.
ResearchCallEnds ==
    /\ proc_call = "research_multiple_fields"
    /\ \E p \in in_flight : \E answer \in ResearchAnswers :
         /\ in_flight' = in_flight \ { p }
         /\ batch_results' = batch_results
                \cup { [pos |-> p, result |-> research_ecs_field(answer)] }
    /\ UNCHANGED << proc_call, rule_cases, entered_cases, payloads,
                    other_matches, detections, search_error, shared_counts,
                    original_payload, payload_file, backup_file,
                    mapping_runs, field_names, max_concurrent, batch_start,
                    research_results, research_sleeps, research_return,
                    iterations, runner_iteration, current_query,
                    runner_output, runner_runs, runner_result,
                    refine_max_iterations, refine_iteration, failure_history,
                    refine_sleeps, refine_result, rule_evaluations,
                    test_results, passing_rules, staged_batch, filter_exit >>
    /\ UNCHANGED << ctl_vars, agent_vars, engine_vars, main_vars, counts_vars, retry_vars, fs_vars, helper_vars >>

\* asyncio.gather returns: the results are stored by field name, a later
\* position replacing an earlier one of the same name, and the delay follows
\* unless this was the last batch.
ResearchBatchDone ==
    /\ proc_call = "research_multiple_fields"
    /\ in_flight = {} /\ batch_results # {}
    /\ LET names == { field_names[e.pos] : e \in batch_results }
           last(n) == CHOOSE e \in batch_results :
                          /\ field_names[e.pos] = n
                          /\ \A o \in batch_results :
                                 field_names[o.pos] = n => o.pos <= e.pos
       IN  research_results' =
               { e \in research_results : e.field \notin names }
               \cup { [field |-> n, result |-> last(n).result] : n \in names }
    /\ research_sleeps' = IF batch_start + max_concurrent < Len(field_names)
                          THEN research_sleeps + 1
                          ELSE research_sleeps
    /\ batch_start' = batch_start + max_concurrent
    /\ batch_results' = {}
    /\ UNCHANGED << proc_call, rule_cases, entered_cases, payloads,
                    other_matches, detections, search_error, shared_counts,
                    original_payload, payload_file, backup_file,
                    mapping_runs, field_names, max_concurrent, in_flight,
                    research_return, iterations, runner_iteration,
                    current_query, runner_output, runner_runs, runner_result,
                    refine_max_iterations, refine_iteration, failure_history,
                    refine_sleeps, refine_result, rule_evaluations,
                    test_results, passing_rules, staged_batch, filter_exit >>
    /\ UNCHANGED << ctl_vars, agent_vars, engine_vars, main_vars, counts_vars, retry_vars, fs_vars, helper_vars >>

\* The loop is over: return results.
ResearchReturn ==
    /\ proc_call = "research_multiple_fields"
    /\ research_return = << >>
    /\ ~(batch_start < Len(field_names))
    /\ research_return' = << research_results >>
    /\ UNCHANGED << proc_call, rule_cases, entered_cases, payloads,
                    other_matches, detections, search_error, shared_counts,
                    original_payload, payload_file, backup_file,
                    mapping_runs, field_names, max_concurrent, batch_start,
                    in_flight, batch_results, research_results,
                    research_sleeps, iterations, runner_iteration,
                    current_query, runner_output, runner_runs, runner_result,
                    refine_max_iterations, refine_iteration, failure_history,
                    refine_sleeps, refine_result, rule_evaluations,
                    test_results, passing_rules, staged_batch, filter_exit >>
    /\ UNCHANGED << ctl_vars, agent_vars, engine_vars, main_vars, counts_vars, retry_vars, fs_vars, helper_vars >>

MaxRunnerIterations == 3    \* iterations is drawn from 0..MaxRunnerIterations
MAX_REFINEMENT_CHARS == 50000

\* lengths of the text a run answers with
OutputChars == { 10, MAX_REFINEMENT_CHARS, MAX_REFINEMENT_CHARS + 1 }

\* A text of the runner is the output of run number "run", "chars"
\* characters of it, followed or not by the truncation note.  The query of
\* the caller is the text with refines = 0.
truncate_for_refinement(text) ==
    IF text.chars <= MAX_REFINEMENT_CHARS
    THEN [refines |-> text.run, chars |-> text.chars, note |-> FALSE]
    ELSE [refines |-> text.run, chars |-> MAX_REFINEMENT_CHARS, note |-> TRUE]

\* variant of on_error: break whatever output is
always_break(output) == "break"

\* except Exception: raise when there is no output at all, else break
on_error(output) == IF output = << >> THEN "raise" ELSE "break"

\* One pass of the loop whose run_debug call answers.
RunnerRunSucceeds ==
    /\ proc_call = "run_agent_with_iteration"
    /\ runner_result = << >>
    /\ runner_iteration < iterations
    /\ \E n \in OutputChars :
         LET output == [run |-> runner_iteration + 1, chars |-> n]
         IN  /\ runner_runs' = Append(runner_runs,
                    [query |-> current_query, ok |-> TRUE, chars |-> n])
             /\ runner_output' = << output >>
             /\ current_query' = IF runner_iteration < iterations - 1
                                 THEN truncate_for_refinement(output)
                                 ELSE current_query
    /\ runner_iteration' = runner_iteration + 1
    /\ UNCHANGED << proc_call, rule_cases, entered_cases, payloads,
                    other_matches, detections, search_error, shared_counts,
                    original_payload, payload_file, backup_file,
                    mapping_runs, field_names, max_concurrent, batch_start,
                    in_flight, batch_results, research_results,
                    research_sleeps, research_return, iterations,
                    runner_result, refine_max_iterations, refine_iteration,
                    failure_history, refine_sleeps, refine_result,
                    rule_evaluations, test_results, passing_rules,
                    staged_batch, filter_exit >>
    /\ UNCHANGED << ctl_vars, agent_vars, engine_vars, main_vars, counts_vars, retry_vars, fs_vars, helper_vars >>

\* One pass of the loop whose run_debug call raises an Exception.
RunnerRunFails ==
    /\ proc_call = "run_agent_with_iteration"
    /\ runner_result = << >>
    /\ runner_iteration < iterations
    /\ runner_runs' = Append(runner_runs,
           [query |-> current_query, ok |-> FALSE, chars |-> 0])
    /\ runner_result' = IF on_error(runner_output) = "raise"
                        THEN [kind |-> "raise", output |-> << >>]
                        ELSE [kind |-> "return", output |-> runner_output]
    /\ UNCHANGED << proc_call, rule_cases, entered_cases, payloads,
                    other_matches, detections, search_error, shared_counts,
                    original_payload, payload_file, backup_file,
                    mapping_runs, field_names, max_concurrent, batch_start,
                    in_flight, batch_results, research_results,
                    research_sleeps, research_return, iterations,
                    runner_iteration, current_query, runner_output,
                    refine_max_iterations, refine_iteration, failure_history,
                    refine_sleeps, refine_result, rule_evaluations,
                    test_results, passing_rules, staged_batch, filter_exit >>
    /\ UNCHANGED << ctl_vars, agent_vars, engine_vars, main_vars, counts_vars, retry_vars, fs_vars, helper_vars >>

\* range(iterations) is used up: return output.
RunnerLoopEnds ==
    /\ proc_call = "run_agent_with_iteration"
    /\ runner_result = << >>
    /\ ~(runner_iteration < iterations)
    /\ runner_result' = [kind |-> "return", output |-> runner_output]
    /\ UNCHANGED << proc_call, rule_cases, entered_cases, payloads,
                    other_matches, detections, search_error, shared_counts,
                    original_payload, payload_file, backup_file,
                    mapping_runs, field_names, max_concurrent, batch_start,
                    in_flight, batch_results, research_results,
                    research_sleeps, research_return, iterations,
                    runner_iteration, current_query, runner_output,
                    runner_runs, refine_max_iterations, refine_iteration,
                    failure_history, refine_sleeps, refine_result,
                    rule_evaluations, test_results, passing_rules,
                    staged_batch, filter_exit >>
    /\ UNCHANGED << ctl_vars, agent_vars, engine_vars, main_vars, counts_vars, retry_vars, fs_vars, helper_vars >>

MaxRefinements == 3     \* max_iterations is drawn from 0..MaxRefinements

\* One pass of the loop of run_with_refinement: run_detection_agent is
\* called; rules end the function, no rules and an Exception are recorded
\* and followed by the wait or, in the last pass, by the failed result or
\* the re-raised error.  SystemExit is no Exception and leaves the function.
RefineIteration ==
    /\ proc_call = "run_with_refinement"
    /\ refine_result.kind = "none"
    /\ refine_iteration < refine_max_iterations
    /\ refine_iteration' = refine_iteration + 1
    /\ \E backend \in Backends :
         LET run == run_detection_agent(backend)
             pass == refine_iteration + 1
             last == pass >= refine_max_iterations
         IN  IF run.kind = "return" /\ run.rules_generated > 0
             THEN /\ refine_result' = run
                  /\ UNCHANGED << failure_history, refine_sleeps >>
             ELSE IF run.kind = "return"
             THEN /\ failure_history' = Append(failure_history,
                         [iteration |-> pass, summary |-> "No rules"])
                  /\ refine_sleeps' =
                         IF ~last THEN refine_sleeps + 1 ELSE refine_sleeps
                  /\ refine_result' =
                         IF ~last THEN refine_result
                         ELSE Outcome("failed", "", "", 0)
             ELSE IF run.kind = "raise"
             THEN /\ failure_history' = Append(failure_history,
                         [iteration |-> pass, summary |-> "Exception"])
                  /\ refine_sleeps' =
                         IF ~last THEN refine_sleeps + 1 ELSE refine_sleeps
                  /\ refine_result' = IF ~last THEN refine_result ELSE run
             ELSE /\ refine_result' = run
                  /\ UNCHANGED << failure_history, refine_sleeps >>
    /\ UNCHANGED << proc_call, rule_cases, entered_cases, payloads,
                    other_matches, detections, search_error, shared_counts,
                    original_payload, payload_file, backup_file,
                    mapping_runs, field_names, max_concurrent, batch_start,
                    in_flight, batch_results, research_results,
                    research_sleeps, research_return, iterations,
                    runner_iteration, current_query, runner_output,
                    runner_runs, runner_result, refine_max_iterations,
                    rule_evaluations, test_results, passing_rules,
                    staged_batch, filter_exit >>
    /\ UNCHANGED << ctl_vars, agent_vars, engine_vars, main_vars, counts_vars, retry_vars, fs_vars, helper_vars >>

\* The loop ends without a return from inside it, which happens for
\* max_iterations < 1 only: the failed result is returned.
RefineLoopEnds ==
    /\ proc_call = "run_with_refinement"
    /\ refine_result.kind = "none"
    /\ ~(refine_iteration < refine_max_iterations)
    /\ refine_result' = Outcome("failed", "", "", 0)
    /\ UNCHANGED << proc_call, rule_cases, entered_cases, payloads,
                    other_matches, detections, search_error, shared_counts,
                    original_payload, payload_file, backup_file,
                    mapping_runs, field_names, max_concurrent, batch_start,
                    in_flight, batch_results, research_results,
                    research_sleeps, research_return, iterations,
                    runner_iteration, current_query, runner_output,
                    runner_runs, runner_result, refine_max_iterations,
                    refine_iteration, failure_history, refine_sleeps,
                    rule_evaluations, test_results, passing_rules,
                    staged_batch, filter_exit >>
    /\ UNCHANGED << ctl_vars, agent_vars, engine_vars, main_vars, counts_vars, retry_vars, fs_vars, helper_vars >>

MaxEvaluations == 2     \* length of rule_evaluations

StagedRuleIds == { "6f1a", "9c2e" }
Decisions == { "APPROVE", "CONDITIONAL", "REJECT" }

\* staging thresholds, ratios in thousandths
STAGING_F1 == 750
STAGING_PRECISION == 800
STAGING_TP == 1

\* what the test results hold for a rule; tested FALSE: the rule is no key
\* of the results
NotTested == [tested |-> FALSE, f1_score |-> 0, precision |-> 0, tp |-> 0]

TestedMetrics ==
    [ tested : { TRUE },
      f1_score : { STAGING_F1 - 1, STAGING_F1 },
      precision : { STAGING_PRECISION - 1, STAGING_PRECISION },
      tp : { STAGING_TP - 1, STAGING_TP } ]

IntegrationResults == [ StagedRuleIds -> { NotTested } \cup TestedMetrics ]

\* the judge evaluates every rule once
RuleEvaluations ==
    { es \in SeqsUpTo([rule_id : StagedRuleIds, decision : Decisions],
                      MaxEvaluations) :
          \A i, j \in 1..Len(es) : es[i].rule_id = es[j].rule_id => i = j }

\* variant of meets_criteria: the integration thresholds alone
meets_thresholds(decision, metrics) ==
    /\ metrics.f1_score >= STAGING_F1
    /\ metrics.precision >= STAGING_PRECISION
    /\ metrics.tp >= STAGING_TP

\* the criteria for staging
meets_criteria(decision, metrics) ==
    /\ decision \in { "APPROVE", "CONDITIONAL" }
    /\ metrics.f1_score >= STAGING_F1
    /\ metrics.precision >= STAGING_PRECISION
    /\ metrics.tp >= STAGING_TP

\* the loop over rule_evaluations, from evaluation k on
RECURSIVE filter_from(_)
filter_from(k) ==
    IF k > Len(rule_evaluations) THEN << >>
    ELSE LET eval_result == rule_evaluations[k]
             metrics == test_results[eval_result.rule_id]
         IN  IF ~metrics.tested THEN filter_from(k + 1)
             ELSE IF meets_criteria(eval_result.decision, metrics)
             THEN << [rule_id |-> eval_result.rule_id,
                      f1_score |-> metrics.f1_score,
                      precision |-> metrics.precision] >>
                  \o filter_from(k + 1)
             ELSE filter_from(k + 1)

\* The script: filter the evaluations; with no passing rule exit before
\* anything is staged, else write the batch that lists the passing rules.
FilterPassingRules ==
    /\ proc_call = "filter_passing_rules"
    /\ filter_exit = << >>
    /\ passing_rules' = filter_from(1)
    /\ staged_batch' = IF passing_rules' = << >> THEN << >>
                       ELSE << [rules |-> passing_rules'] >>
    /\ filter_exit' = << 0 >>
    /\ UNCHANGED << proc_call, rule_cases, entered_cases, payloads,
                    other_matches, detections, search_error, shared_counts,
                    original_payload, payload_file, backup_file,
                    mapping_runs, field_names, max_concurrent, batch_start,
                    in_flight, batch_results, research_results,
                    research_sleeps, research_return, iterations,
                    runner_iteration, current_query, runner_output,
                    runner_runs, runner_result, refine_max_iterations,
                    refine_iteration, failure_history, refine_sleeps,
                    refine_result, rule_evaluations, test_results >>
    /\ UNCHANGED << ctl_vars, agent_vars, engine_vars, main_vars, counts_vars, retry_vars, fs_vars, helper_vars >>

InitProcedures ==
    /\ CtlIdle /\ AgentIdle /\ EngineIdle /\ MainIdle /\ CountsIdle /\ RetryIdle /\ FsIdle /\ HelperIdle
    /\ proc_call \in { "test_cases", "run_detection_queries", "apply_field_mapping", "research_multiple_fields", "run_agent_with_iteration", "run_with_refinement", "filter_passing_rules" }
    /\ rule_cases \in IF proc_call = "test_cases" THEN RuleCaseLists ELSE { << >> }
    /\ entered_cases = << >>
    /\ payloads \in IF proc_call = "run_detection_queries" THEN PayloadLists ELSE { << >> }
    /\ other_matches \in IF proc_call = "run_detection_queries" THEN { 0, SearchSize - 1, SearchSize } ELSE { 0 }
    /\ detections = << >>
    /\ search_error = FALSE
    /\ shared_counts = [tp |-> 0, fp |-> 0, tn |-> 0, fn |-> 0]
    /\ original_payload \in IF proc_call = "apply_field_mapping" THEN Payloads ELSE { [has_log_entry |-> FALSE, fields |-> {}] }
    /\ payload_file \in IF proc_call = "apply_field_mapping" THEN { original_payload } ELSE { [has_log_entry |-> FALSE, fields |-> {}] }
    /\ backup_file = << >>
    /\ mapping_runs = 0
    /\ field_names \in IF proc_call = "research_multiple_fields" THEN SeqsUpTo(FieldNames, MaxFields) ELSE { << >> }
    /\ max_concurrent \in IF proc_call = "research_multiple_fields" THEN 1..MaxConcurrent ELSE { 0 }
    /\ batch_start = 0
    /\ in_flight = {}
    /\ batch_results = {}
    /\ research_results = {}
    /\ research_sleeps = 0
    /\ research_return = << >>
    /\ iterations \in IF proc_call = "run_agent_with_iteration" THEN 0..MaxRunnerIterations ELSE { 0 }
    /\ runner_iteration = 0
    /\ current_query = [refines |-> 0, chars |-> 0, note |-> FALSE]
    /\ runner_output = << >>
    /\ runner_runs = << >>
    /\ runner_result = << >>
    /\ refine_max_iterations \in IF proc_call = "run_with_refinement" THEN 0..MaxRefinements ELSE { 0 }
    /\ refine_iteration = 0
    /\ failure_history = << >>
    /\ refine_sleeps = 0
    /\ refine_result = NoAgentResult
    /\ rule_evaluations \in IF proc_call = "filter_passing_rules" THEN RuleEvaluations ELSE { << >> }
    /\ test_results \in IF proc_call = "filter_passing_rules" THEN IntegrationResults ELSE { << >> }
    /\ passing_rules = << >>
    /\ staged_batch = << >>
    /\ filter_exit = << >>

NextProcedures ==
    \/ ValidateAndTestRule
    \/ RunDetectionQueries
    \/ ApplyFieldMapping
    \/ ResearchStartBatch
    \/ ResearchCallEnds
    \/ ResearchBatchDone
    \/ ResearchReturn
    \/ RunnerRunSucceeds
    \/ RunnerRunFails
    \/ RunnerLoopEnds
    \/ RefineIteration
    \/ RefineLoopEnds
    \/ FilterPassingRules

SpecProcedures == InitProcedures /\ [][NextProcedures]_vars

(***************************************************************************)
(* Claims about the further procedures.                                    *)
(***************************************************************************)
\* C31: every test case that is run has an expected_match that fits its
\* type: true for TP, false for FN and for TN.
C31_ExpectedMatchFitsKind ==
    entered_cases # << >> =>
        \A i \in DOMAIN entered_cases[1] :
            LET tc == entered_cases[1][i]
            IN  /\ tc.type = "TP" => tc.expected_match
                /\ tc.type \in {"FN", "TN"} => ~tc.expected_match

\* C33: every payload of the rule that satisfies the rule's query is among
\* the detected documents and is counted as TP or FP, however many other
\* documents of the index satisfy the query and are returned by the search.
C33_EverySatisfyingPayloadDetected ==
    ( detections # << >> /\ ~search_error ) =>
        /\ \A i \in DOMAIN payloads :
               payloads[i].satisfies => i \in detections[1]
        /\ shared_counts.tp + shared_counts.fp
               = Cardinality({ i \in DOMAIN payloads : payloads[i].satisfies })

\* C34: after any number of runs of apply_field_mapping the backup copy of
\* the payload file holds the payload as it was before the first run.
C34_BackupHoldsOriginal ==
    backup_file # << >> => backup_file[1] = original_payload

\* C35: never more than max_concurrent research calls are in flight; the
\* calls in flight belong to one batch, and every call of the batches before
\* it has ended; one delay was made after each batch but the last; on return
\* every requested field name has exactly one result, whatever its call
\* ended in.
C35_BatchesBoundConcurrency ==
    proc_call = "research_multiple_fields" =>
        LET n == Len(field_names)
            batches == (n + max_concurrent - 1) \div max_concurrent
            ended == IF batch_start < n THEN batch_start \div max_concurrent
                     ELSE batches
        IN  /\ Cardinality(in_flight) <= max_concurrent
            /\ \A p \in in_flight \cup { e.pos : e \in batch_results } :
                   /\ batch_start < p
                   /\ p <= batch_start + max_concurrent
            /\ \A p \in 1..n :
                   p <= batch_start =>
                       \E e \in research_results : e.field = field_names[p]
            /\ research_sleeps = IF ended = batches /\ batches > 0
                                 THEN batches - 1 ELSE ended
            /\ research_return # << >> =>
                   /\ in_flight = {}
                   /\ \A p \in 1..n :
                          Cardinality({ e \in research_return[1] :
                                          e.field = field_names[p] }) = 1
                   /\ \A e \in research_return[1] :
                          \E p \in 1..n : e.field = field_names[p]

\* C35 witness: three fields of two names researched two at a time; one delay
\* was made, and the returned dictionary holds one result per name, the
\* failed research among them.
C35_Witness ==
    /\ research_return # << >>
    /\ field_names = << "event.category", "custom.weird.field", "event.category" >>
    /\ max_concurrent = 2
    /\ research_sleeps = 1
    /\ [field |-> "custom.weird.field",
        result |-> [valid |-> FALSE, error |-> TRUE]] \in research_return[1]
    /\ Cardinality(research_return[1]) = 2

\* C36: the agent is run at most iterations times; every run after the first
\* is given the output of the run before it, cut to MAX_REFINEMENT_CHARS
\* characters; a failed run is the last run, and then the function raises
\* when it was the first run and else returns the output of the run before.
C36_RefinesUntilARunFails ==
    proc_call = "run_agent_with_iteration" =>
        /\ Len(runner_runs) <= iterations
        /\ \A k \in 1..Len(runner_runs) :
               /\ k = 1 => runner_runs[k].query.refines = 0
               /\ k > 1 =>
                      /\ runner_runs[k - 1].ok
                      /\ runner_runs[k].query.refines = k - 1
                      /\ runner_runs[k].query.chars <= MAX_REFINEMENT_CHARS
                      /\ runner_runs[k].query.chars <= runner_runs[k - 1].chars
                      /\ runner_runs[k].query.note
                             = (runner_runs[k - 1].chars > MAX_REFINEMENT_CHARS)
                      /\ ~runner_runs[k].query.note =>
                             runner_runs[k].query.chars = runner_runs[k - 1].chars
               /\ ~runner_runs[k].ok =>
                      /\ k = Len(runner_runs)
                      /\ runner_result # << >>
                      /\ k = 1 => runner_result.kind = "raise"
                      /\ k > 1 =>
                             /\ runner_result.kind = "return"
                             /\ runner_result.output =
                                    << [run |-> k - 1,
                                        chars |-> runner_runs[k - 1].chars] >>

\* C36 witness: of three iterations the first answered with a text longer
\* than MAX_REFINEMENT_CHARS, the second was given its truncation and
\* failed, and the output of the first was returned.
C36_Witness ==
    /\ proc_call = "run_agent_with_iteration"
    /\ iterations = 3
    /\ Len(runner_runs) = 2
    /\ runner_runs[1].chars = MAX_REFINEMENT_CHARS + 1
    /\ runner_runs[2].query.note
    /\ ~runner_runs[2].ok
    /\ runner_result # << >>
    /\ runner_result.kind = "return"

\* C37: run_with_refinement ends in one of three ways: with the result of
\* the first iteration that produced a rule; with status failed after all
\* max_iterations iterations, failure_history holding one entry per
\* iteration; with the error raised by the last iteration.  While it runs,
\* every iteration so far is recorded and was followed by one wait.
C37_EndsInOneOfThreeWays ==
    proc_call = "run_with_refinement" =>
        /\ refine_result.kind = "none" =>
               /\ Len(failure_history) = refine_iteration
               /\ refine_sleeps = refine_iteration
        /\ refine_result.kind # "none" =>
               \/ /\ refine_result.kind = "return"
                  /\ refine_result.rules_generated > 0
                  /\ Len(failure_history) = refine_iteration - 1
               \/ /\ refine_result.kind = "failed"
                  /\ refine_iteration = refine_max_iterations
                  /\ Len(failure_history) = refine_max_iterations
                  /\ \A k \in 1..Len(failure_history) :
                         failure_history[k].iteration = k
               \/ /\ refine_result.kind = "raise"
                  /\ refine_iteration = refine_max_iterations
                  /\ Len(failure_history) = refine_max_iterations

=============================================================================
